---- MODULE Spec2Model ----
(***************************************************************************)
(* Model of the Email-Manager pipeline core: the PipelineRunner state      *)
(* machine (src/src/pipeline.py), the EmailCategorizer batching and        *)
(* response reconciliation (src/src/ai/categorizer.py) and the helpers the *)
(* stage handlers call.  The external collaborators (mail source,          *)
(* reasoning service, report file, chat delivery) are the environment:     *)
(* each call to one of them has a nondeterministic outcome.                *)
(***************************************************************************)
EXTENDS Integers, Sequences, FiniteSets, TLC

VARIABLES
    config,          \* AppConfig: slack.enabled, slack credentials, ai.batch_size
    current_state,   \* PipelineRunner._current_state
    context,         \* PipelineRunner._context (PipelineContext)
    pc,              \* position of the control flow inside run()
    idx,             \* index of the for-loop of run() into _STATE_ORDER
    loc,             \* locals of categorize_all / draft_replies while they run
    transitions,     \* the "State transition: old -> new" records of _transition_to
    invoked,         \* the state handlers run() has invoked, in order
    calls,           \* the calls made to external collaborators, with outcome
    raised,          \* the states whose handler raised into the except clause of run()
    response,        \* the LambdaResponse run() returns
    invocation,      \* the number of the handler invocation that is running
    to_group,        \* the argument of ThreadGrouper.group_emails
    digest_groups,   \* what ThreadGrouper.group_emails returned or raised
    limiter,         \* a TokenBucketRateLimiter: _max_requests, _timestamps, _lock
    clock,           \* time.monotonic()
    thr,             \* the threads calling acquire(): position and locals of each
    grants,          \* the clock readings at which acquire() granted a slot
    bp,              \* a call of process_in_batches: arguments, locals, position
    reconcile        \* a call of _parse_draft_response: arguments and result

\* the state of a PipelineRunner and of its run()
pipelineVars ==
    <<config, current_state, context, pc, idx, loc, transitions, invoked,
      calls, raised, response>>

\* the state a step of run() does not touch
otherVars ==
    <<invocation, to_group, digest_groups, limiter, clock, thr, grants, bp, reconcile>>

vars == <<pipelineVars, otherVars>>

----------------------------------------------------------------------------
(* Bounds of the model *)

MaxEmails == 2      \* messages the mail source returns in one run
MaxItems == 2       \* entries in one structured response of the reasoning service
MaxInvocations == 2 \* invocations of the handler
MaxRuns == 2        \* calls of run() on one runner
MaxMessages == 3    \* messages in a list given to consolidate_into_threads
MaxThreads == 2     \* threads calling acquire() on one rate limiter
MaxRequests == 1    \* max_requests of a rate limiter
MaxCalls == 3       \* calls of acquire() the threads make in all
MaxTime == 2
MaxBatchItems == 3        \* clock reading up to which time passes with no thread asleep

----------------------------------------------------------------------------
(* Enumerations and constants of the program *)

INIT == "INIT"
GATHER_EMAILS == "GATHER_EMAILS"
CATEGORIZE_EMAILS == "CATEGORIZE_EMAILS"
DRAFT_REPLIES == "DRAFT_REPLIES"
APPLY_LABELS == "APPLY_LABELS"
GROUP_EMAILS == "GROUP_EMAILS"
GENERATE_REPORT == "GENERATE_REPORT"
REPORT == "REPORT"

PipelineState ==
    {INIT, GATHER_EMAILS, CATEGORIZE_EMAILS, DRAFT_REPLIES, APPLY_LABELS,
     GROUP_EMAILS, GENERATE_REPORT, REPORT}

_STATE_ORDER ==
    <<INIT, GATHER_EMAILS, CATEGORIZE_EMAILS, DRAFT_REPLIES, GROUP_EMAILS,
      GENERATE_REPORT, REPORT>>

SUMMARY_ONLY == "Summary Only"
ACTION_EVENTUALLY == "Action Eventually"
ACTION_IMMEDIATELY == "Action Immediately"

EmailCategory == {SUMMARY_ONLY, ACTION_EVENTUALLY, ACTION_IMMEDIATELY}

None == "None"

NoError == [type |-> None, msg |-> ""]

ThreadIds == 1..MaxEmails

\* an id the reasoning service may return that belongs to no conversation
UnknownId == 0

\* the defaults of process_in_batches: max_retries and retry_delay
max_retries == 2
retry_delay == 2

----------------------------------------------------------------------------
(* Sequence helpers *)

Range(s) == {s[i] : i \in 1..Len(s)}

SeqsUpTo(S, n) == UNION {[1..k -> S] : k \in 0..n}

Min2(a, b) == IF a < b THEN a ELSE b

Max2(a, b) == IF a > b THEN a ELSE b

\* s[i : j] of Python, 0-based, end exclusive, clipped to the list
Slice(s, i, j) == SubSeq(s, i + 1, Min2(j, Len(s)))

RECURSIVE InsertByKey(_, _, _, _)
\* insert index x into the sorted index list s after the last index whose key
\* does not come after keys[x]: the step of a stable sort. desc: descending.
InsertByKey(s, x, keys, desc) ==
    IF s = <<>> THEN <<x>>
    ELSE LET last == s[Len(s)]
             after == IF desc THEN keys[last] < keys[x] ELSE keys[last] > keys[x]
         IN  IF after
             THEN Append(InsertByKey(SubSeq(s, 1, Len(s) - 1), x, keys, desc), last)
             ELSE Append(s, x)

RECURSIVE SortedIndices(_, _, _)
\* the indices 1..n in the order a stable sort by keys puts them
SortedIndices(n, keys, desc) ==
    IF n = 0 THEN <<>>
    ELSE InsertByKey(SortedIndices(n - 1, keys, desc), n, keys, desc)

\* list.sort(key=...) / sorted(..., key=..., reverse=desc): stable; keys[i] is
\* the key of s[i]
SortedBy(s, keys, desc) ==
    LET perm == SortedIndices(Len(s), keys, desc)
    IN  [i \in 1..Len(s) |-> s[perm[i]]]

RECURSIVE SumSeq(_)
SumSeq(s) == IF s = <<>> THEN 0 ELSE Head(s) + SumSeq(Tail(s))

----------------------------------------------------------------------------
(* Mail source: GmailClient.consolidate_into_threads *)

\* key=lambda m: m.date
MsgDates(messages) == [i \in 1..Len(messages) |-> messages[i].date]

\* key=lambda t: t.latest_date
ThreadLatest(threads) == [i \in 1..Len(threads) |-> threads[i].latest_date]

RECURSIVE FirstSeen(_)
\* the keys of thread_map in insertion order
FirstSeen(emails) ==
    IF emails = <<>> THEN <<>>
    ELSE LET init == FirstSeen(SubSeq(emails, 1, Len(emails) - 1))
             tid == emails[Len(emails)].thread_id
         IN  IF tid \in Range(init) THEN init ELSE Append(init, tid)

MakeThread(tid, emails) ==
    LET inThread(m) == m.thread_id = tid
        unsorted == SelectSeq(emails, inThread)
        messages == SortedBy(unsorted, MsgDates(unsorted), FALSE)
    IN  [thread_id |-> tid,
         messages |-> messages,
         message_count |-> Len(messages),
         latest_date |-> messages[Len(messages)].date]

consolidate_into_threads(emails) ==
    LET keys == FirstSeen(emails)
        threads == [i \in 1..Len(keys) |-> MakeThread(keys[i], emails)]
    IN  SortedBy(threads, ThreadLatest(threads), TRUE)

\* what the mail source returns: message i arrives with date i
Mailbox(tids) ==
    [i \in 1..Len(tids) |-> [message_id |-> i, thread_id |-> tids[i], date |-> i]]

\* thread ids are opaque: a mailbox is taken up to renaming of its thread ids,
\* the first thread seen named 1, the next new one 2, ...
FirstUse(tids) ==
    \A i \in 1..Len(tids) :
        \/ tids[i] = 1
        \/ \E j \in 1..(i - 1) : tids[j] = tids[i] - 1

Mailboxes ==
    {Mailbox(tids) : tids \in {t \in SeqsUpTo(ThreadIds, MaxEmails) : FirstUse(t)}}

----------------------------------------------------------------------------
(* Reasoning service: what one structured-output call may do *)

\* a Python dict lookup with default: item.get(k, default)
Get(item, k, default) == IF k \in DOMAIN item THEN item[k] ELSE default

\* message texts of the service errors categorize_batch / _draft_batch re-raise
ApiErrors == {"Anthropic rate limit exceeded", "Anthropic API error"}

ServiceError(m) == [kind |-> "error", msg |-> m, items |-> <<>>]

\* a tool_use block carrying the entries items
ServiceAnswer(items) == [kind |-> "ok", msg |-> "", items |-> items]

\* entries of a "categorizations" array
CatItem(id, category) ==
    [email_id |-> id, category |-> category, priority |-> 5,
     summary |-> "summary", reasoning |-> <<"reasoning">>]

\* entries of a "drafts" array
DraftItem(id, awaiting) ==
    [thread_id |-> id, awaiting_reply |-> awaiting, suggested_reply |-> "reply"]

RECURSIVE AnswersFor(_, _)
\* the answers that follow the order of the request, each conversation either
\* answered with one of the entries ItemsOf gives for its id, or left out
AnswersFor(ids, ItemsOf) ==
    IF ids = <<>> THEN {<<>>}
    ELSE LET rest == AnswersFor(Tail(ids), ItemsOf)
         IN  rest \cup {<<item>> \o r : item \in ItemsOf[Head(ids)], r \in rest}

\* what a categorization call of a pipeline run may do: fail, or answer some of
\* the conversations of the batch
CategorizeOutcomes(ids) ==
    {ServiceError(m) : m \in ApiErrors}
    \cup {ServiceAnswer(r) :
            r \in AnswersFor(ids, [id \in Range(ids) |->
                     {CatItem(id, c) : c \in {SUMMARY_ONLY, ACTION_IMMEDIATELY}}])}

\* what a draft call of a pipeline run may do
DraftOutcomes(ids) ==
    {ServiceError(m) : m \in ApiErrors}
    \cup {ServiceAnswer(r) :
            r \in AnswersFor(ids, [id \in Range(ids) |->
                     {DraftItem(id, a) : a \in BOOLEAN}])}

\* the service as a pipeline run meets it, the service answering anything, the
\* service answering in order with any raw priority, and the service answering
\* in order with any category label
Services == {"answers", "any", "raw", "labels"}

\* any answer of at most MaxItems entries: ids of the batch, of other batches
\* and of no conversation, in any order, repeated or left out
AnyCategorizeOutcomes(ids) ==
    {ServiceError(m) : m \in ApiErrors}
    \cup {ServiceAnswer(r) :
            r \in SeqsUpTo({CatItem(id, c) :
                               id \in ThreadIds \cup {UnknownId},
                               c \in {SUMMARY_ONLY, ACTION_IMMEDIATELY}},
                           MaxItems)}

\* any "drafts" array of at most MaxItems entries: ids of the batch, of other
\* batches and of no conversation, in any order, repeated or left out, reply
\* text supplied whether or not awaiting_reply is set
AnyDraftOutcomes(ids) ==
    {ServiceError(m) : m \in ApiErrors}
    \cup {ServiceAnswer(r) :
            r \in SeqsUpTo({DraftItem(id, a) :
                               id \in ThreadIds \cup {UnknownId}, a \in BOOLEAN},
                           MaxItems)}

\* raw priorities the service may supply: below, inside and above 1..10
RawPriorities == {0 - 3, 0, 1, 7, 10, 11}

\* an entry of a "categorizations" array with the raw priority p
CatItemWithPriority(id, p) ==
    [email_id |-> id, category |-> ACTION_IMMEDIATELY, priority |-> p,
     summary |-> "summary", reasoning |-> <<"reasoning">>]

\* an entry of a "categorizations" array that carries no priority
CatItemNoPriority(id) ==
    [email_id |-> id, category |-> ACTION_IMMEDIATELY,
     summary |-> "summary", reasoning |-> <<"reasoning">>]

\* what a categorization call may do when the service answers in order with
\* any raw priority, or none
RawCategorizeOutcomes(ids) ==
    {ServiceError(m) : m \in ApiErrors}
    \cup {ServiceAnswer(r) :
            r \in AnswersFor(ids, [id \in Range(ids) |->
                     {CatItemWithPriority(id, p) : p \in RawPriorities}
                     \cup {CatItemNoPriority(id)}])}

\* category labels the service may supply that are no value of EmailCategory:
\* a label of its own, the name of a member, a value in another case, nothing
InvalidLabels == {"Spam", "ACTION_IMMEDIATELY", "action immediately", ""}

\* what a categorization call may do when the service answers in order with
\* any category label
LabelCategorizeOutcomes(ids) ==
    {ServiceError(m) : m \in ApiErrors}
    \cup {ServiceAnswer(r) :
            r \in AnswersFor(ids, [id \in Range(ids) |->
                     {CatItem(id, c) : c \in EmailCategory \cup InvalidLabels}])}

----------------------------------------------------------------------------
(* EmailCategorizer: categorization *)

AnthropicAPIError(m) == [type |-> "AnthropicAPIError", msg |-> m]

KeyError(k) == [type |-> "KeyError", msg |-> k]

Returned(v) == [raised |-> FALSE, error |-> NoError, value |-> v]

Raised(e) == [raised |-> TRUE, error |-> e, value |-> <<>>]

ThreadIdsOf(threads) == {threads[i].thread_id : i \in 1..Len(threads)}

\* thread_map = {t.thread_id: t for t in threads}; thread_map[id]
ThreadMapGet(threads, id) ==
    threads[CHOOSE i \in 1..Len(threads) :
                /\ threads[i].thread_id = id
                /\ \A j \in (i + 1)..Len(threads) : threads[j].thread_id # id]

Categorization(category, priority, summary, reasoning) ==
    [category |-> category,
     priority |-> priority,
     summary |-> summary,
     reasoning |-> reasoning,
     awaiting_reply |-> FALSE,
     suggested_reply |-> None]

CategorizedThread(thread, categorization) ==
    [thread |-> thread, categorization |-> categorization]

\* ParseCategorizationItem taking the raw priority as it comes
ParseCategorizationItem_NoClamp(item, threads) ==
    LET category == IF item.category \in EmailCategory
                    THEN item.category ELSE SUMMARY_ONLY
        priority == Get(item, "priority", 5)
    IN  CategorizedThread(
            ThreadMapGet(threads, item.email_id),
            Categorization(category, priority,
                           Get(item, "summary", "No summary provided"),
                           Get(item, "reasoning", <<"No reasoning provided">>)))

\* ParseCategorizationItem taking the category label as it comes
ParseCategorizationItem_KeepsLabel(item, threads) ==
    CategorizedThread(
        ThreadMapGet(threads, item.email_id),
        Categorization(item.category,
                       Max2(1, Min2(10, Get(item, "priority", 5))),
                       Get(item, "summary", "No summary provided"),
                       Get(item, "reasoning", <<"No reasoning provided">>)))

\* the body of the loop over the entries of the tool_use block, for an entry
\* whose id is in thread_map
ParseCategorizationItem(item, threads) ==
    LET category == IF item.category \in EmailCategory
                    THEN item.category ELSE SUMMARY_ONLY
        priority == Max2(1, Min2(10, Get(item, "priority", 5)))
    IN  CategorizedThread(
            ThreadMapGet(threads, item.email_id),
            Categorization(category, priority,
                           Get(item, "summary", "No summary provided"),
                           Get(item, "reasoning", <<"No reasoning provided">>)))

\* _parse_categorization_response without the lookup guard of the id in
\* thread_map: an entry for an unknown id is kept, for a conversation of that id
_parse_categorization_response_KeepsUnknown(items, threads) ==
    LET known(item) == Get(item, "email_id", UnknownId) \in ThreadIdsOf(threads)
        stray(item) == [thread_id |-> Get(item, "email_id", UnknownId),
                        messages |-> <<>>, message_count |-> 0, latest_date |-> 0]
    IN  Returned([i \in 1..Len(items) |->
                     IF known(items[i])
                     THEN ParseCategorizationItem(items[i], threads)
                     ELSE CategorizedThread(stray(items[i]),
                              Categorization(SUMMARY_ONLY, 5, "summary",
                                             <<"reasoning">>))])

_parse_categorization_response(items, threads) ==
    LET known(item) == Get(item, "email_id", UnknownId) \in ThreadIdsOf(threads)
        matched == SelectSeq(items, known)
    IN  IF \E i \in 1..Len(matched) : "category" \notin DOMAIN matched[i]
        THEN Raised(KeyError("category"))
        ELSE Returned([i \in 1..Len(matched) |->
                          ParseCategorizationItem(matched[i], threads)])

categorize_batch(threads, outcome) ==
    IF threads = <<>> THEN Returned(<<>>)
    ELSE IF outcome.kind = "error" THEN Raised(AnthropicAPIError(outcome.msg))
    ELSE _parse_categorization_response(outcome.items, threads)

\* the classification categorize_all gives every thread of a failed batch
FailedCategorization(e) ==
    Categorization(SUMMARY_ONLY, 5,
                   "[Categorization failed - please review manually]",
                   <<"AI categorization error: ", e.msg>>)

\* CategorizeAllStep without the placeholders of the except clause: a failed
\* batch adds nothing
CategorizeAllStep_DropsBatch(batch, outcome) ==
    LET res == categorize_batch(batch, outcome)
    IN  IF res.raised THEN <<>> ELSE res.value

\* one iteration of the loop of categorize_all over the batch at offset i:
\* what is appended to all_results
CategorizeAllStep(batch, outcome) ==
    LET res == categorize_batch(batch, outcome)
    IN  IF res.raised
        THEN [j \in 1..Len(batch) |->
                 CategorizedThread(batch[j], FailedCategorization(res.error))]
        ELSE res.value

----------------------------------------------------------------------------
(* EmailCategorizer: draft replies *)

IsSummaryOnly(ct) == ct.categorization.category = SUMMARY_ONLY

\* IsActionable taking every conversation as actionable
IsActionable_Always(ct) == ct.categorization.category \in EmailCategory

IsActionable(ct) == ct.categorization.category # SUMMARY_ONLY

CtIds(cts) == [i \in 1..Len(cts) |-> cts[i].thread.thread_id]

\* SuggestedReply keeping the reply text whatever awaiting_reply is
SuggestedReply_Unconditional(item) == Get(item, "suggested_reply", None)

\* reply = item.get("suggested_reply") if awaiting else None
SuggestedReply(item) ==
    IF Get(item, "awaiting_reply", FALSE)
    THEN Get(item, "suggested_reply", None) ELSE None

RECURSIVE ParseDrafts(_, _, _)
\* the loop over the entries of the "drafts" array: remaining is thread_map
\* (in insertion order), updated the list built so far
ParseDrafts(items, remaining, updated) ==
    IF items = <<>>
    THEN updated \o remaining
    ELSE LET item == Head(items)
             id == Get(item, "thread_id", UnknownId)
             hit(ct) == ct.thread.thread_id = id
             miss(ct) == ct.thread.thread_id # id
         IN  IF \E i \in 1..Len(remaining) : hit(remaining[i])
             THEN LET ct == SelectSeq(remaining, hit)[1]
                      awaiting == Get(item, "awaiting_reply", FALSE)
                      reply == SuggestedReply(item)
                      upd == [ct.categorization EXCEPT
                                 !.awaiting_reply = awaiting,
                                 !.suggested_reply = reply]
                  IN  ParseDrafts(Tail(items), SelectSeq(remaining, miss),
                                  Append(updated, CategorizedThread(ct.thread, upd)))
             ELSE ParseDrafts(Tail(items), remaining, updated)

RECURSIVE DedupLast(_)
\* the values of {ct.thread.thread_id: ct for ct in threads}: one entry per
\* id, at the position of its first occurrence, holding its last occurrence
DedupLast(cts) ==
    IF cts = <<>> THEN <<>>
    ELSE LET init == DedupLast(SubSeq(cts, 1, Len(cts) - 1))
             x == cts[Len(cts)]
         IN  IF \E i \in 1..Len(init) : init[i].thread.thread_id = x.thread.thread_id
             THEN [i \in 1..Len(init) |->
                      IF init[i].thread.thread_id = x.thread.thread_id
                      THEN x ELSE init[i]]
             ELSE Append(init, x)

RECURSIVE DropEarlierRepeats(_)
\* the entries that no later entry repeats the id of
DropEarlierRepeats(items) ==
    IF items = <<>> THEN <<>>
    ELSE LET id == Get(Head(items), "thread_id", UnknownId)
             rest == Tail(items)
         IN  IF \E k \in 1..Len(rest) : Get(rest[k], "thread_id", UnknownId) = id
             THEN DropEarlierRepeats(rest)
             ELSE <<Head(items)>> \o DropEarlierRepeats(rest)

\* _parse_draft_response with a later entry for a conversation replacing an
\* earlier one
_parse_draft_response_LastWins(items, threads) ==
    ParseDrafts(DropEarlierRepeats(items), DedupLast(threads), <<>>)

\* _parse_draft_response without the loop over what is left in thread_map:
\* a conversation the answer does not name is not passed through
_parse_draft_response_DropsOmitted(items, threads) ==
    LET named == {Get(items[j], "thread_id", UnknownId) : j \in 1..Len(items)}
    IN  SelectSeq(ParseDrafts(items, DedupLast(threads), <<>>),
                  LAMBDA ct : ct.thread.thread_id \in named)

_parse_draft_response(items, threads) ==
    ParseDrafts(items, DedupLast(threads), <<>>)

_draft_batch(threads, outcome) ==
    IF outcome.kind = "error" THEN Raised(AnthropicAPIError(outcome.msg))
    ELSE Returned(_parse_draft_response(outcome.items, threads))

\* DraftRepliesStep without the except clause's drafted.extend(batch): the
\* conversations of a failed batch are lost
DraftRepliesStep_DropsFailed(batch, outcome) ==
    LET res == _draft_batch(batch, outcome)
    IN  IF res.raised THEN <<>> ELSE res.value

\* one iteration of the loop of draft_replies: what is appended to drafted
DraftRepliesStep(batch, outcome) ==
    LET res == _draft_batch(batch, outcome)
    IN  IF res.raised THEN batch ELSE res.value

----------------------------------------------------------------------------
(* PipelineContext, Digest, LambdaResponse *)

NoDigest ==
    [present |-> FALSE, total_threads |-> 0, total_messages |-> 0,
     groups |-> <<>>, action_immediately |-> <<>>, action_eventually |-> <<>>,
     summary_only |-> <<>>]

NoResponse ==
    [status |-> None, threads_processed |-> 0, emails_processed |-> 0,
     emails_by_category |-> <<>>, slack_sent |-> FALSE,
     report_location |-> None, errors |-> <<>>]

PipelineContext ==
    [success |-> TRUE,
     error |-> NoError,
     failed_state |-> None,
     errors |-> <<>>,
     raw_emails |-> <<>>,
     threads |-> <<>>,
     categorized_threads |-> <<>>,
     groups |-> <<>>,
     digest |-> NoDigest,
     report_path |-> None,
     slack_sent |-> FALSE]

NoLocals ==
    [i |-> 0, all_results |-> <<>>, actionable |-> <<>>, summary_only |-> <<>>,
     drafted |-> <<>>]

Configs ==
    [slack_enabled : BOOLEAN,
     slack_credentials : BOOLEAN,      \* bot_token and user_id are both set
     batch_size : 1..MaxEmails]

\* the ids of the entries of an answer that are ids of the request, in the
\* order of the answer
AnsweredIds(items, key, ids) ==
    LET all == [j \in 1..Len(items) |-> Get(items[j], key, UnknownId)]
    IN  SelectSeq(all, LAMBDA id : id \in Range(ids))

\* the raw priorities of the entries of an answer that name a conversation of
\* the request, in the order of the answer
AnsweredPriorities(items, key, ids) ==
    LET named == SelectSeq(items, LAMBDA item : Get(item, key, UnknownId) \in Range(ids))
    IN  [j \in 1..Len(named) |->
            [present |-> "priority" \in DOMAIN named[j],
             value |-> Get(named[j], "priority", 0)]]

\* the category labels of the entries of an answer that name a conversation
\* of the request, in the order of the answer
AnsweredLabels(items, key, ids) ==
    LET named == SelectSeq(items, LAMBDA item : Get(item, key, UnknownId) \in Range(ids))
    IN  [j \in 1..Len(named) |-> Get(named[j], "category", None)]

\* a call to a collaborator: ids the conversations sent, answered the
\* conversations of the request the answer has entries for, raw the priorities
\* and labels the category labels those entries carry, unknown the number of
\* entries of the answer for ids that are not in the request, payload the
\* error text or what was delivered
Call(op, ids, ok, answered, payload) ==
    [op |-> op, ids |-> ids, ok |-> ok, answered |-> answered, raw |-> <<>>,
     labels |-> <<>>, unknown |-> 0, payload |-> payload]

\* a call to the reasoning service and what it did
ServiceCall(op, ids, outcome, key) ==
    LET answered == AnsweredIds(outcome.items, key, ids)
    IN  [Call(op, ids, outcome.kind = "ok", answered, outcome.msg)
            EXCEPT !.raw = AnsweredPriorities(outcome.items, key, ids),
                   !.labels = AnsweredLabels(outcome.items, key, ids),
                   !.unknown = Len(outcome.items) - Len(answered)]

\* sorted(..., key=lambda t: t.categorization.priority, reverse=True)
ByPriority(cts) ==
    SortedBy(cts, [i \in 1..Len(cts) |-> cts[i].categorization.priority], TRUE)

CtMessages(cts) == SumSeq([i \in 1..Len(cts) |-> cts[i].thread.message_count])

\* InCategory with the urgent conversations also in the non-urgent bucket
InCategory_UrgentTwice(cts, c) ==
    LET is(ct) == \/ ct.categorization.category = c
                  \/ /\ c = ACTION_EVENTUALLY
                     /\ ct.categorization.category = ACTION_IMMEDIATELY
    IN  SelectSeq(cts, is)

\* [t for t in categorized if t.categorization.category == c]
InCategory(cts, c) ==
    LET is(ct) == ct.categorization.category = c IN SelectSeq(cts, is)

\* the Digest _execute_generate_report builds
BuildDigest(categorized, groups) ==
    [present |-> TRUE,
     total_threads |-> Len(categorized),
     total_messages |-> CtMessages(categorized),
     groups |-> groups,
     action_immediately |->
         ByPriority(InCategory(categorized, ACTION_IMMEDIATELY)),
     action_eventually |->
         ByPriority(InCategory(categorized, ACTION_EVENTUALLY)),
     summary_only |->
         ByPriority(InCategory(categorized, SUMMARY_ONLY))]

\* emails_by_category of _build_response: label -> count, as a list of pairs
CategoryCounts(categorized) ==
    IF categorized = <<>> THEN <<>>
    ELSE << <<ACTION_IMMEDIATELY, Len(InCategory(categorized, ACTION_IMMEDIATELY))>>,
            <<ACTION_EVENTUALLY, Len(InCategory(categorized, ACTION_EVENTUALLY))>>,
            <<SUMMARY_ONLY, Len(InCategory(categorized, SUMMARY_ONLY))>> >>

_build_response(ctx) ==
    [status |-> IF ctx.success THEN "success" ELSE "error",
     threads_processed |-> Len(ctx.categorized_threads),
     emails_processed |-> CtMessages(ctx.categorized_threads),
     emails_by_category |-> CategoryCounts(ctx.categorized_threads),
     slack_sent |-> ctx.slack_sent,
     report_location |-> ctx.report_path,
     errors |-> ctx.errors]

----------------------------------------------------------------------------
(* PipelineRunner *)

\* the first invocation of the handler, in its first call of run()
FirstInvocation == [handler |-> 1, run |-> 1, failed_before |-> FALSE]

\* no rate limiter has been constructed
NoLimiter == [max_requests |-> 0, per_seconds |-> 0, timestamps |-> <<>>, lock |-> 0]

\* group_emails has not been called
NotCalled == [called |-> FALSE, raised |-> FALSE, error |-> NoError, value |-> <<>>]

\* process_in_batches has not been called
NoBatches ==
    [items |-> <<>>, batch_size |-> 1, max_retries |-> 0, i |-> 0, attempt |-> 0,
     results |-> <<>>, processed |-> <<>>, sleeps |-> <<>>, pc |-> "idle",
     value |-> <<>>]

\* _parse_draft_response has not been called on its own
NoReconcile == [threads |-> <<>>, items |-> <<>>, called |-> FALSE, value |-> <<>>]

\* no grouper call, no rate limiter and no call of process_in_batches are part
\* of a run of the pipeline
OtherIdle ==
    /\ bp = NoBatches
    /\ reconcile = NoReconcile
    /\ to_group = <<>>
    /\ digest_groups = NotCalled
    /\ limiter = NoLimiter
    /\ clock = 0
    /\ thr = <<>>
    /\ grants = <<>>

Init ==
    /\ invocation = FirstInvocation
    /\ OtherIdle
    /\ config \in Configs
    /\ current_state = INIT
    /\ context = PipelineContext
    /\ pc = "run"
    /\ idx = 1
    /\ loc = NoLocals
    /\ transitions = <<>>
    /\ invoked = <<>>
    /\ calls = <<>>
    /\ raised = <<>>
    /\ response = NoResponse

\* the loop of run() is at the iteration for state
AtState(state) == pc = "run" /\ _STATE_ORDER[idx] = state

\* _transition_to reading old_state after the assignment
_transition_to_OldAfterAssign(new_state) ==
    /\ transitions' = Append(transitions, <<new_state, new_state>>)
    /\ current_state' = new_state

\* _transition_to(new_state): records old -> new and sets the current state
_transition_to(new_state) ==
    /\ transitions' = Append(transitions, <<current_state, new_state>>)
    /\ current_state' = new_state

\* the loop of run() enters state and calls its handler
Invoke(state) ==
    /\ _transition_to(state)
    /\ invoked' = Append(invoked, state)

\* NextIteration stepping over a state of _STATE_ORDER
NextIteration_SkipsOne ==
    pc' = "run" /\ idx' = IF idx + 2 <= Len(_STATE_ORDER) THEN idx + 2 ELSE idx + 1

\* the handler returned: the loop goes on to the next state
NextIteration == pc' = "run" /\ idx' = idx + 1

\* Break without the break of the except clause: after the jump to REPORT the
\* loop goes on with the state after the failed one
Break_LoopGoesOn ==
    IF pc = "except"
    THEN pc' = "run" /\ idx' = idx + 1
    ELSE pc' = "return" /\ UNCHANGED idx

\* the break after the REPORT handler: run() goes on to return
Break == pc' = "return" /\ UNCHANGED idx

\* JumpToReport with the exception swallowed: the loop goes on to the next state
JumpToReport_Continue == pc' = "run" /\ idx' = idx + 1

\* the handler raised: control is in the except clause, which jumps to REPORT
\* and leaves the loop
JumpToReport == pc' = "except" /\ UNCHANGED idx

\* the except clause without the assignment to success
RecordFailure_KeepsSuccess(ctx, state, e) ==
    [ctx EXCEPT !.error = e,
                !.failed_state = state,
                !.errors = Append(@, <<state, e.type, e.msg>>)]

\* the except clause of run(): what it records in the context
RecordFailure(ctx, state, e) ==
    [ctx EXCEPT !.success = FALSE,
                !.error = e,
                !.failed_state = state,
                !.errors = Append(@, <<state, e.type, e.msg>>)]

\* the handler of state raised e, which the except clause of run() catches
Raise(state, e) ==
    /\ context' = RecordFailure(context, state, e)
    /\ raised' = Append(raised, state)
    /\ JumpToReport

\* SlackConfig.validate accepting missing credentials
SlackConfigValid_IgnoresCredentials(cfg) ==
    cfg.slack_enabled \in BOOLEAN /\ cfg.slack_credentials \in BOOLEAN

\* SlackConfig.validate
SlackConfigValid(cfg) == ~(cfg.slack_enabled /\ ~cfg.slack_credentials)

ConfigError ==
    [type |-> "ConfigError", msg |-> "SLACK_BOT_TOKEN and SLACK_USER_ID are required"]

ExecuteInit ==
    /\ AtState(INIT)
    /\ Invoke(INIT)
    /\ IF SlackConfigValid(config)
       THEN /\ NextIteration
            /\ UNCHANGED <<context, raised>>
       ELSE Raise(INIT, ConfigError)
    /\ UNCHANGED <<config, loc, calls, response>>
    /\ UNCHANGED otherVars

GmailErrors ==
    {[type |-> "GmailAuthError", msg |-> "token refresh failed"],
     [type |-> "GmailFetchError", msg |-> "gmail api error"]}

ExecuteGather ==
    /\ AtState(GATHER_EMAILS)
    /\ Invoke(GATHER_EMAILS)
    /\ \/ \E e \in GmailErrors :
            /\ calls' = Append(calls, Call("gmail.fetch", <<>>, FALSE, <<>>, e.msg))
            /\ Raise(GATHER_EMAILS, e)
       \/ \E emails \in Mailboxes :
            /\ calls' = Append(calls, Call("gmail.fetch", <<>>, TRUE, <<>>, ""))
            /\ UNCHANGED raised
            /\ context' = [context EXCEPT
                              !.raw_emails = emails,
                              !.threads = IF emails = <<>> THEN @
                                          ELSE consolidate_into_threads(emails)]
            /\ NextIteration
    /\ UNCHANGED <<config, loc, response>>
    /\ UNCHANGED otherVars

\* EmailCategorizer.__init__ builds the API client and reads the guidelines
\* file; either may raise
CategorizerInitError == [type |-> "OSError", msg |-> "guidelines unreadable"]

CategorizerInitFailed ==
    Call("categorizer.init", <<>>, FALSE, <<>>, CategorizerInitError.msg)

ExecuteCategorize ==
    /\ AtState(CATEGORIZE_EMAILS)
    /\ Invoke(CATEGORIZE_EMAILS)
    /\ IF context.threads = <<>>
       THEN /\ NextIteration
            /\ UNCHANGED <<context, loc, calls, raised>>
       ELSE \/ /\ calls' = Append(calls, CategorizerInitFailed)
               /\ Raise(CATEGORIZE_EMAILS, CategorizerInitError)
               /\ UNCHANGED loc
            \/ /\ pc' = "categorize_all"
               /\ loc' = [NoLocals EXCEPT !.i = 0, !.all_results = <<>>]
               /\ UNCHANGED <<idx, context, calls, raised>>
    /\ UNCHANGED <<config, response>>
    /\ UNCHANGED otherVars

\* one iteration of the loop of categorize_all
CategorizeBatch(service) ==
    /\ pc = "categorize_all"
    /\ loc.i < Len(context.threads)
    /\ LET batch == Slice(context.threads, loc.i, loc.i + config.batch_size)
           ids == [j \in 1..Len(batch) |-> batch[j].thread_id]
           outcomes == IF service = "any" THEN AnyCategorizeOutcomes(ids)
                       ELSE IF service = "raw" THEN RawCategorizeOutcomes(ids)
                       ELSE IF service = "labels" THEN LabelCategorizeOutcomes(ids)
                       ELSE CategorizeOutcomes(ids)
       IN  \E outcome \in outcomes :
             /\ loc' = [loc EXCEPT
                           !.i = @ + config.batch_size,
                           !.all_results = @ \o CategorizeAllStep(batch, outcome)]
             /\ calls' = Append(calls,
                           ServiceCall("anthropic.categorize", ids, outcome,
                                       "email_id"))
    /\ UNCHANGED <<config, current_state, context, pc, idx, transitions, invoked,
                   raised, response>>
    /\ UNCHANGED otherVars

\* categorize_all returns all_results; _execute_categorize stores it
CategorizeReturn ==
    /\ pc = "categorize_all"
    /\ loc.i >= Len(context.threads)
    /\ context' = [context EXCEPT !.categorized_threads = loc.all_results]
    /\ loc' = NoLocals
    /\ NextIteration
    /\ UNCHANGED <<config, current_state, transitions, invoked, calls, raised,
                   response>>
    /\ UNCHANGED otherVars

ExecuteDraftReplies ==
    /\ AtState(DRAFT_REPLIES)
    /\ Invoke(DRAFT_REPLIES)
    /\ IF context.categorized_threads = <<>>
       THEN /\ NextIteration
            /\ UNCHANGED <<context, loc, calls, raised>>
       ELSE \/ /\ calls' = Append(calls, CategorizerInitFailed)
               /\ Raise(DRAFT_REPLIES, CategorizerInitError)
               /\ UNCHANGED loc
            \/ LET actionable == SelectSeq(context.categorized_threads, IsActionable)
                   summary_only == SelectSeq(context.categorized_threads, IsSummaryOnly)
               IN  IF actionable = <<>>
                   THEN \* draft_replies returns threads itself
                        /\ NextIteration
                        /\ UNCHANGED <<context, loc, calls, raised>>
                   ELSE /\ pc' = "draft_replies"
                        /\ loc' = [NoLocals EXCEPT !.i = 0,
                                                   !.actionable = actionable,
                                                   !.summary_only = summary_only]
                        /\ UNCHANGED <<idx, context, calls, raised>>
    /\ UNCHANGED <<config, response>>
    /\ UNCHANGED otherVars

\* one iteration of the loop of draft_replies
DraftBatch(service) ==
    /\ pc = "draft_replies"
    /\ loc.i < Len(loc.actionable)
    /\ LET batch == Slice(loc.actionable, loc.i, loc.i + config.batch_size)
           outcomes == IF service = "any" THEN AnyDraftOutcomes(CtIds(batch))
                       ELSE DraftOutcomes(CtIds(batch))
       IN  \E outcome \in outcomes :
             /\ loc' = [loc EXCEPT
                           !.i = @ + config.batch_size,
                           !.drafted = @ \o DraftRepliesStep(batch, outcome)]
             /\ calls' = Append(calls,
                           ServiceCall("anthropic.draft", CtIds(batch), outcome,
                                       "thread_id"))
    /\ UNCHANGED <<config, current_state, context, pc, idx, transitions, invoked,
                   raised, response>>
    /\ UNCHANGED otherVars

\* draft_replies returns drafted + summary_only; _execute_draft_replies stores it
DraftReturn ==
    /\ pc = "draft_replies"
    /\ loc.i >= Len(loc.actionable)
    /\ context' = [context EXCEPT
                      !.categorized_threads = loc.drafted \o loc.summary_only]
    /\ loc' = NoLocals
    /\ NextIteration
    /\ UNCHANGED <<config, current_state, transitions, invoked, calls, raised,
                   response>>
    /\ UNCHANGED otherVars

\* ThreadGrouper has no method group_threads (thread_grouper.py defines only
\* group_emails): the call raises AttributeError
GroupThreadsError ==
    [type |-> "AttributeError",
     msg |-> "'ThreadGrouper' object has no attribute 'group_threads'"]

ExecuteGroup ==
    /\ AtState(GROUP_EMAILS)
    /\ Invoke(GROUP_EMAILS)
    /\ IF context.categorized_threads = <<>>
       THEN /\ NextIteration
            /\ UNCHANGED <<context, raised>>
       ELSE Raise(GROUP_EMAILS, GroupThreadsError)
    /\ UNCHANGED <<config, loc, calls, response>>
    /\ UNCHANGED otherVars

ReportPath == "/tmp/email_digest.md"

ExecuteGenerateReport ==
    /\ AtState(GENERATE_REPORT)
    /\ Invoke(GENERATE_REPORT)
    /\ LET categorized == context.categorized_threads
           digest == BuildDigest(categorized, context.groups)
       IN  IF categorized # <<>>
           THEN \/ /\ calls' = Append(calls, Call("report.write", <<>>, TRUE, <<>>, ""))
                   /\ context' = [context EXCEPT !.digest = digest,
                                                 !.report_path = ReportPath]
                \/ /\ calls' = Append(calls,
                                 Call("report.write", <<>>, FALSE, <<>>, "write failed"))
                   /\ context' = [context EXCEPT
                                     !.digest = digest,
                                     !.errors = Append(@,
                                         <<"Report generation failed", "write failed">>)]
           ELSE /\ context' = [context EXCEPT !.digest = digest]
                /\ UNCHANGED calls
    /\ NextIteration
    /\ UNCHANGED <<config, loc, raised, response>>
    /\ UNCHANGED otherVars

\* SendSuccess without the early return for an empty digest
SendSuccess_SendsEmpty ==
    IF ~context.digest.present
    THEN UNCHANGED <<context, calls>> /\ Break
    ELSE \/ /\ calls' = Append(calls, Call("slack.send", <<>>, TRUE, <<>>, "digest"))
            /\ context' = [context EXCEPT !.slack_sent = TRUE]
            /\ Break
         \/ /\ calls' = Append(calls, Call("slack.send", <<>>, FALSE, <<>>, "digest"))
            /\ context' = [context EXCEPT
                              !.errors = Append(@,
                                  <<"Slack delivery failed", "SlackDeliveryError">>)]
            /\ Break

\* _send_success_notification: a delivery error is caught and recorded
SendSuccess ==
    IF ~context.digest.present \/ context.digest.total_threads = 0
    THEN UNCHANGED <<context, calls>> /\ Break
    ELSE \/ /\ calls' = Append(calls, Call("slack.send", <<>>, TRUE, <<>>, "digest"))
            /\ context' = [context EXCEPT !.slack_sent = TRUE]
            /\ Break
         \/ /\ calls' = Append(calls, Call("slack.send", <<>>, FALSE, <<>>, "digest"))
            /\ context' = [context EXCEPT
                              !.errors = Append(@,
                                  <<"Slack delivery failed", "SlackDeliveryError">>)]
            /\ Break

\* SendFailure without the try/except around the delivery: the error leaves
\* _execute_report and run()
SendFailure_Propagates ==
    IF context.error = NoError \/ context.failed_state = None
    THEN UNCHANGED <<context, calls>> /\ Break
    ELSE \/ /\ calls' = Append(calls,
                          Call("slack.send", <<>>, TRUE, <<>>, context.failed_state))
            /\ context' = [context EXCEPT !.slack_sent = TRUE]
            /\ Break
         \/ /\ calls' = Append(calls,
                          Call("slack.send", <<>>, FALSE, <<>>, context.failed_state))
            /\ UNCHANGED <<context, idx>>
            /\ pc' = "raised"

\* SendFailure setting slack_sent whether or not the delivery went through
SendFailure_FlagsAnyway ==
    IF context.error = NoError \/ context.failed_state = None
    THEN UNCHANGED <<context, calls>> /\ Break
    ELSE \/ /\ calls' = Append(calls,
                          Call("slack.send", <<>>, TRUE, <<>>, context.failed_state))
            /\ context' = [context EXCEPT !.slack_sent = TRUE]
            /\ Break
         \/ /\ calls' = Append(calls,
                          Call("slack.send", <<>>, FALSE, <<>>, context.failed_state))
            /\ context' = [context EXCEPT !.slack_sent = TRUE]
            /\ Break

\* _send_failure_notification: the payload names failed_state; a delivery
\* error is caught and only logged
SendFailure ==
    IF context.error = NoError \/ context.failed_state = None
    THEN UNCHANGED <<context, calls>> /\ Break
    ELSE \/ /\ calls' = Append(calls,
                          Call("slack.send", <<>>, TRUE, <<>>, context.failed_state))
            /\ context' = [context EXCEPT !.slack_sent = TRUE]
            /\ Break
         \/ /\ calls' = Append(calls,
                          Call("slack.send", <<>>, FALSE, <<>>, context.failed_state))
            /\ UNCHANGED context
            /\ Break

\* _execute_report sending no alert for a failed run
_execute_report_NoAlert ==
    IF ~config.slack_enabled
    THEN UNCHANGED <<context, calls>> /\ Break
    ELSE IF context.success THEN SendSuccess
         ELSE UNCHANGED <<context, calls>> /\ Break

\* _execute_report without the early return for disabled delivery
_execute_report_IgnoresEnabled ==
    IF context.success THEN SendSuccess ELSE SendFailure

\* _execute_report
_execute_report ==
    IF ~config.slack_enabled
    THEN UNCHANGED <<context, calls>> /\ Break
    ELSE IF context.success THEN SendSuccess ELSE SendFailure

\* the REPORT handler, reached by the loop or by the jump of the except clause
ExecuteReport ==
    /\ AtState(REPORT) \/ pc = "except"
    /\ Invoke(REPORT)
    /\ _execute_report
    /\ UNCHANGED <<config, loc, raised, response>>
    /\ UNCHANGED otherVars

\* return self._build_response()
BuildResponse ==
    /\ pc = "return"
    /\ response' = _build_response(context)
    /\ pc' = "done"
    /\ UNCHANGED <<config, current_state, context, idx, loc, transitions, invoked,
                   calls, raised>>
    /\ UNCHANGED otherVars

Next ==
    \/ ExecuteInit
    \/ ExecuteGather
    \/ ExecuteCategorize
    \/ CategorizeBatch("answers")
    \/ CategorizeReturn
    \/ ExecuteDraftReplies
    \/ DraftBatch("answers")
    \/ DraftReturn
    \/ ExecuteGroup
    \/ ExecuteGenerateReport
    \/ ExecuteReport
    \/ BuildResponse

Spec == Init /\ [][Next]_vars

----------------------------------------------------------------------------
(* categorize_all on its own: the run is in _execute_categorize, about to     *)
(* enter the loop of categorize_all, and the reasoning service may answer    *)
(* anything                                                                  *)

InitCategorize ==
    /\ invocation = FirstInvocation
    /\ OtherIdle
    /\ config \in {c \in Configs : c.slack_enabled /\ c.slack_credentials}
    /\ current_state = CATEGORIZE_EMAILS
    /\ \E emails \in Mailboxes \ {<<>>} :
          context = [PipelineContext EXCEPT
                        !.raw_emails = emails,
                        !.threads = consolidate_into_threads(emails)]
    /\ pc = "categorize_all"
    /\ idx = 3
    /\ loc = NoLocals
    /\ transitions = <<<<INIT, INIT>>, <<INIT, GATHER_EMAILS>>,
                       <<GATHER_EMAILS, CATEGORIZE_EMAILS>>>>
    /\ invoked = <<INIT, GATHER_EMAILS, CATEGORIZE_EMAILS>>
    /\ calls = <<Call("gmail.fetch", <<>>, TRUE, <<>>, "")>>
    /\ raised = <<>>
    /\ response = NoResponse

NextCategorize ==
    \/ CategorizeBatch("any")
    \/ CategorizeReturn

SpecCategorize == InitCategorize /\ [][NextCategorize]_vars

NextPriority ==
    \/ CategorizeBatch("raw")
    \/ CategorizeReturn

\* categorize_all with the service answering in order with any raw priority
SpecPriority == InitCategorize /\ [][NextPriority]_vars

NextLabels ==
    \/ CategorizeBatch("labels")
    \/ CategorizeReturn

\* categorize_all with the service answering in order with any category label
SpecLabels == InitCategorize /\ [][NextLabels]_vars

----------------------------------------------------------------------------
(* draft_replies on its own: the run has categorized every conversation and  *)
(* is about to enter DRAFT_REPLIES, and the reasoning service may answer     *)
(* anything                                                                  *)

\* the ids of the k-th batch of size conversations
BatchIds(threads, k, size) ==
    LET batch == Slice(threads, (k - 1) * size, k * size)
    IN  [j \in 1..Len(batch) |-> batch[j].thread_id]

\* the calls categorize_all makes when every batch is answered in full
AnsweredCategorizeCalls(threads, size) ==
    [k \in 1..((Len(threads) + size - 1) \div size) |->
        Call("anthropic.categorize", BatchIds(threads, k, size), TRUE,
             BatchIds(threads, k, size), "")]

\* what categorize_all returns when the service gives conversation i the
\* category cats[i]
CategorizedAs(threads, cats) ==
    [i \in 1..Len(threads) |->
        ParseCategorizationItem(CatItem(threads[i].thread_id, cats[i]), threads)]

InitDraft ==
    /\ invocation = FirstInvocation
    /\ OtherIdle
    /\ config \in {c \in Configs : c.slack_enabled /\ c.slack_credentials}
    /\ current_state = CATEGORIZE_EMAILS
    /\ \E emails \in Mailboxes \ {<<>>} :
          LET threads == consolidate_into_threads(emails)
          IN  /\ \E cats \in [1..Len(threads) -> {SUMMARY_ONLY, ACTION_IMMEDIATELY}] :
                    context = [PipelineContext EXCEPT
                                  !.raw_emails = emails,
                                  !.threads = threads,
                                  !.categorized_threads = CategorizedAs(threads, cats)]
              /\ calls = <<Call("gmail.fetch", <<>>, TRUE, <<>>, "")>>
                          \o AnsweredCategorizeCalls(threads, config.batch_size)
    /\ pc = "run"
    /\ idx = 4
    /\ loc = NoLocals
    /\ transitions = <<<<INIT, INIT>>, <<INIT, GATHER_EMAILS>>,
                       <<GATHER_EMAILS, CATEGORIZE_EMAILS>>>>
    /\ invoked = <<INIT, GATHER_EMAILS, CATEGORIZE_EMAILS>>
    /\ raised = <<>>
    /\ response = NoResponse

NextDraft ==
    \/ ExecuteDraftReplies
    \/ DraftBatch("any")
    \/ DraftReturn

SpecDraft == InitDraft /\ [][NextDraft]_vars

NextClassifyDraft ==
    \/ CategorizeBatch("any")
    \/ CategorizeReturn
    \/ ExecuteDraftReplies
    \/ DraftBatch("answers")
    \/ DraftReturn

\* CATEGORIZE_EMAILS followed by DRAFT_REPLIES: draft_replies is given whatever
\* categorize_all returned, the service answering anything to categorization
SpecClassifyDraft == InitCategorize /\ [][NextClassifyDraft]_vars

\* the handler with the runner of the last invocation kept: run() is called on
\* it again
HandlerRun_KeepsRunner ==
    /\ pc = "done"
    /\ invocation.handler < MaxInvocations
    /\ invocation' = [handler |-> invocation.handler + 1, run |-> 1,
                      failed_before |-> invocation.failed_before
                                            \/ response.status = "error"]
    /\ pc' = "run"
    /\ idx' = 1
    /\ loc' = NoLocals
    /\ transitions' = <<>>
    /\ invoked' = <<>>
    /\ calls' = <<>>
    /\ raised' = <<>>
    /\ response' = NoResponse
    /\ UNCHANGED <<config, current_state, context>>
    /\ UNCHANGED <<to_group, digest_groups, limiter, clock, thr, grants, bp, reconcile>>

\* handler.run: an invocation after the last one has returned constructs a
\* new PipelineRunner, with a new context and current state INIT, and calls
\* its run(); the records of the run (transitions, invoked, calls, raised)
\* start empty
HandlerRun ==
    /\ pc = "done"
    /\ invocation.handler < MaxInvocations
    /\ invocation' = [handler |-> invocation.handler + 1, run |-> 1,
                      failed_before |-> invocation.failed_before
                                            \/ response.status = "error"]
    /\ current_state' = INIT
    /\ context' = PipelineContext
    /\ pc' = "run"
    /\ idx' = 1
    /\ loc' = NoLocals
    /\ transitions' = <<>>
    /\ invoked' = <<>>
    /\ calls' = <<>>
    /\ raised' = <<>>
    /\ response' = NoResponse
    /\ UNCHANGED config
    /\ UNCHANGED <<to_group, digest_groups, limiter, clock, thr, grants, bp, reconcile>>

\* PipelineRunner.run called again on a runner whose run() has returned: the
\* loop starts over _STATE_ORDER, the context and the current state are what
\* the last run left
RunAgain ==
    /\ pc = "done"
    /\ invocation.run < MaxRuns
    /\ invocation' = [invocation EXCEPT
                          !.run = @ + 1,
                          !.failed_before = @ \/ response.status = "error"]
    /\ pc' = "run"
    /\ idx' = 1
    /\ loc' = NoLocals
    /\ transitions' = <<>>
    /\ invoked' = <<>>
    /\ calls' = <<>>
    /\ raised' = <<>>
    /\ response' = NoResponse
    /\ UNCHANGED <<config, current_state, context>>
    /\ UNCHANGED <<to_group, digest_groups, limiter, clock, thr, grants, bp, reconcile>>

\* the deployment the invocations run in: delivery off, one batch per call
InitHandler ==
    /\ Init
    /\ ~config.slack_enabled /\ ~config.slack_credentials
    /\ config.batch_size = MaxEmails

NextHandler ==
    \/ Next
    \/ HandlerRun
    \/ RunAgain

SpecHandler == InitHandler /\ [][NextHandler]_vars

\* priorities of the conversations a digest is built from
DigestPriorities == {1, 10}

\* the conversations a digest is built from: one-message conversations with
\* any category and a priority
DigestThreads ==
    LET threads == consolidate_into_threads(Mailbox([i \in 1..MaxEmails |-> i]))
    IN  {CategorizedThread(threads[i], Categorization(c, p, "summary", <<"reasoning">>)) :
            i \in 1..Len(threads), c \in EmailCategory, p \in DigestPriorities}

\* run() at the iteration for GENERATE_REPORT, the context holding any list of
\* categorized conversations (a conversation may be in the list twice)
InitDigest ==
    /\ invocation = FirstInvocation
    /\ OtherIdle
    /\ config \in {c \in Configs : c.slack_enabled /\ c.slack_credentials /\ c.batch_size = 1}
    /\ current_state = GROUP_EMAILS
    /\ \E categorized \in SeqsUpTo(DigestThreads, MaxEmails) :
          context = [PipelineContext EXCEPT !.categorized_threads = categorized]
    /\ pc = "run"
    /\ idx = 6
    /\ loc = NoLocals
    /\ transitions = <<<<INIT, INIT>>, <<INIT, GATHER_EMAILS>>,
                       <<GATHER_EMAILS, CATEGORIZE_EMAILS>>,
                       <<CATEGORIZE_EMAILS, DRAFT_REPLIES>>,
                       <<DRAFT_REPLIES, GROUP_EMAILS>>>>
    /\ invoked = <<INIT, GATHER_EMAILS, CATEGORIZE_EMAILS, DRAFT_REPLIES, GROUP_EMAILS>>
    /\ calls = <<>>
    /\ raised = <<>>
    /\ response = NoResponse

NextDigest == ExecuteGenerateReport

SpecDigest == InitDigest /\ [][NextDigest]_vars

----------------------------------------------------------------------------
(* GATHER_EMAILS over messages with any Date header *)

\* what _parse_date makes of the Date headers: date is the instant, aware is
\* false for a header with the offset -0000, which parsedate_to_datetime
\* turns into a datetime without tzinfo
DatedMailbox(tids, dates, aware) ==
    [i \in 1..Len(tids) |->
        [message_id |-> i, thread_id |-> tids[i], date |-> dates[i], aware |-> aware[i]]]

\* the lists of up to max messages the mail source may return
DatedMailboxes(max) ==
    UNION {{DatedMailbox(tids, dates, aware) :
                tids \in {t \in [1..n -> 1..max] : FirstUse(t)},
                dates \in [1..n -> 1..max],
                aware \in [1..n -> BOOLEAN]} : n \in 0..max}

\* comparing a datetime that has tzinfo with one that has none raises
TypeError ==
    [type |-> "TypeError", msg |-> "can't compare offset-naive and offset-aware datetimes"]

\* list.sort(key=date) raises: sorting compares every element with another
\* one, so a list holding both kinds of datetime has them compared
SortRaises(dated) == \E i, j \in 1..Len(dated) : dated[i].aware # dated[j].aware

\* consolidate_into_threads raises, in messages.sort of a conversation or in
\* threads.sort
ConsolidateRaises(emails) ==
    LET keys == FirstSeen(emails)
        of(tid) == SelectSeq(emails, LAMBDA m : m.thread_id = tid)
        latest(tid) ==
            LET messages == SortedBy(of(tid), MsgDates(of(tid)), FALSE)
            IN  messages[Len(messages)]
    IN  \/ \E i \in 1..Len(keys) : SortRaises(of(keys[i]))
        \/ SortRaises([i \in 1..Len(keys) |-> latest(keys[i])])

\* _execute_gather, the mail source returning messages with any Date header
ExecuteGatherDated ==
    /\ AtState(GATHER_EMAILS)
    /\ Invoke(GATHER_EMAILS)
    /\ \/ \E e \in GmailErrors :
            /\ calls' = Append(calls, Call("gmail.fetch", <<>>, FALSE, <<>>, e.msg))
            /\ Raise(GATHER_EMAILS, e)
       \/ \E emails \in DatedMailboxes(MaxMessages) :
            /\ calls' = Append(calls, Call("gmail.fetch", <<>>, TRUE, <<>>, ""))
            /\ IF emails = <<>>
               THEN /\ context' = [context EXCEPT !.raw_emails = emails]
                    /\ UNCHANGED raised
                    /\ NextIteration
               ELSE IF ConsolidateRaises(emails)
               THEN /\ context' = RecordFailure([context EXCEPT !.raw_emails = emails],
                                                GATHER_EMAILS, TypeError)
                    /\ raised' = Append(raised, GATHER_EMAILS)
                    /\ JumpToReport
               ELSE /\ context' = [context EXCEPT
                                      !.raw_emails = emails,
                                      !.threads = consolidate_into_threads(emails)]
                    /\ UNCHANGED raised
                    /\ NextIteration
    /\ UNCHANGED <<config, loc, response>>
    /\ UNCHANGED otherVars

\* run() at the iteration for GATHER_EMAILS
InitConsolidate ==
    /\ invocation = FirstInvocation
    /\ OtherIdle
    /\ config \in {c \in Configs : ~c.slack_enabled /\ ~c.slack_credentials
                                    /\ c.batch_size = 1}
    /\ current_state = INIT
    /\ context = PipelineContext
    /\ pc = "run"
    /\ idx = 2
    /\ loc = NoLocals
    /\ transitions = <<<<INIT, INIT>>>>
    /\ invoked = <<INIT>>
    /\ calls = <<>>
    /\ raised = <<>>
    /\ response = NoResponse

NextConsolidate == ExecuteGatherDated

SpecConsolidate == InitConsolidate /\ [][NextConsolidate]_vars

----------------------------------------------------------------------------
(* Grouper: ThreadGrouper.group_emails *)

\* no runner is part of a call of a component on its own
NoRunner ==
    /\ config = [slack_enabled |-> FALSE, slack_credentials |-> FALSE, batch_size |-> 1]
    /\ current_state = INIT
    /\ context = PipelineContext
    /\ pc = "idle"
    /\ idx = 1
    /\ loc = NoLocals
    /\ transitions = <<>>
    /\ invoked = <<>>
    /\ calls = <<>>
    /\ raised = <<>>
    /\ response = NoResponse

RECURSIVE InsertionOrder(_)
\* the keys of a dict that was filled in the order ks, in insertion order
InsertionOrder(ks) ==
    IF ks = <<>> THEN <<>>
    ELSE LET init == InsertionOrder(SubSeq(ks, 1, Len(ks) - 1))
             k == ks[Len(ks)]
         IN  IF k \in Range(init) THEN init ELSE Append(init, k)

\* sender addresses, as the parts "@" splits them into
SenderEmails == {<<"amy", "a.com">>, <<"bob", "b.org">>, <<"noreply">>}

\* sender_email.split("@")[-1] if "@" in sender_email else "unknown"
EmailDomain(sender_email) ==
    IF Len(sender_email) > 1 THEN sender_email[Len(sender_email)] ELSE "unknown"

GroupPriorities == {1, 10}

\* a CategorizedEmail: message i of the list arrives with id i and date i
CategorizedEmail(i, tid, sender_email, priority) ==
    [email |-> [message_id |-> i, thread_id |-> tid, subject |-> "subject",
                sender_email |-> sender_email, date |-> i],
     categorization |-> Categorization(SUMMARY_ONLY, priority, "summary", <<"reasoning">>)]

\* the lists group_emails is called with
GroupInputs ==
    UNION {{[i \in 1..n |-> CategorizedEmail(i, tids[i], senders[i], prios[i])] :
                tids \in [1..n -> ThreadIds], senders \in [1..n -> SenderEmails],
                prios \in [1..n -> GroupPriorities]} : n \in 0..MaxEmails}

EmailPriorities(emails) ==
    [i \in 1..Len(emails) |-> emails[i].categorization.priority]

EmailDates(emails) == [i \in 1..Len(emails) |-> emails[i].email.date]

RECURSIVE MaxOf(_)
\* max(...) of a non-empty list of numbers
MaxOf(ns) ==
    IF Len(ns) = 1 THEN ns[1] ELSE Max2(Head(ns), MaxOf(Tail(ns)))

\* the fields of the model DigestGroup, all required
DigestGroupFields == {"group_key", "group_label", "threads", "highest_priority"}

ValidationError ==
    [type |-> "ValidationError", msg |-> "1 validation error for DigestGroup: threads"]

\* DigestGroup(**kwargs) validates: every required field is given
DigestGroupValid(kwargs) == DigestGroupFields \subseteq DOMAIN kwargs

\* DigestGroup(**kwargs): keyword arguments that are not fields are ignored
DigestGroup(kwargs) == [f \in DigestGroupFields |-> kwargs[f]]

\* the keyword arguments of the DigestGroup of a thread with several emails
ThreadGroupArgs(thread_id, thread_emails) ==
    [group_key |-> <<"thread", thread_id>>,
     group_label |-> <<"Thread: ", thread_emails[1].email.subject>>,
     emails |-> SortedBy(thread_emails, EmailDates(thread_emails), FALSE),
     highest_priority |-> MaxOf(EmailPriorities(thread_emails))]

\* the keyword arguments of the DigestGroup of a sender domain
DomainGroupArgs(domain, domain_emails) ==
    IF Len(domain_emails) > 1
    THEN [group_key |-> <<"domain", domain>>,
          group_label |-> <<"From: ", domain, Len(domain_emails)>>,
          emails |-> SortedBy(domain_emails, EmailPriorities(domain_emails), TRUE),
          highest_priority |-> MaxOf(EmailPriorities(domain_emails))]
    ELSE [group_key |-> <<"message", domain_emails[1].email.message_id>>,
          group_label |-> <<domain_emails[1].email.subject>>,
          emails |-> domain_emails,
          highest_priority |-> domain_emails[1].categorization.priority]

\* ThreadGrouper.group_emails: what it returns or raises
group_emails(emails) ==
    LET of_thread(t) == SelectSeq(emails, LAMBDA e : e.email.thread_id = t)
        thread_ids == InsertionOrder([i \in 1..Len(emails) |-> emails[i].email.thread_id])
        multi == SelectSeq(thread_ids, LAMBDA t : Len(of_thread(t)) > 1)
        thread_args == [i \in 1..Len(multi) |-> ThreadGroupArgs(multi[i], of_thread(multi[i]))]
        singleton_emails ==
            SelectSeq(emails, LAMBDA e : Len(of_thread(e.email.thread_id)) = 1)
        domain_of(e) == EmailDomain(e.email.sender_email)
        domains == InsertionOrder([i \in 1..Len(singleton_emails) |->
                                      domain_of(singleton_emails[i])])
        of_domain(d) == SelectSeq(singleton_emails, LAMBDA e : domain_of(e) = d)
        domain_args == [i \in 1..Len(domains) |->
                           DomainGroupArgs(domains[i], of_domain(domains[i]))]
        args == thread_args \o domain_args
    IN  IF \E i \in 1..Len(args) : ~DigestGroupValid(args[i])
        THEN [called |-> TRUE, raised |-> TRUE, error |-> ValidationError, value |-> <<>>]
        ELSE LET digest_groups_ == [i \in 1..Len(args) |-> DigestGroup(args[i])]
                 keys == [i \in 1..Len(args) |-> args[i].highest_priority]
             IN  [called |-> TRUE, raised |-> FALSE, error |-> NoError,
                  value |-> SortedBy(digest_groups_, keys, TRUE)]

InitGroup ==
    /\ NoRunner
    /\ invocation = FirstInvocation
    /\ to_group \in GroupInputs
    /\ digest_groups = NotCalled
    /\ limiter = NoLimiter
    /\ clock = 0
    /\ thr = <<>>
    /\ grants = <<>>
    /\ bp = NoBatches
    /\ reconcile = NoReconcile

\* a call ThreadGrouper.group_emails(to_group)
GroupEmails ==
    /\ ~digest_groups.called
    /\ digest_groups' = group_emails(to_group)
    /\ UNCHANGED <<pipelineVars, invocation, to_group, limiter, clock, thr, grants, bp,
                   reconcile>>

NextGroup == GroupEmails

SpecGroup == InitGroup /\ [][NextGroup]_vars

----------------------------------------------------------------------------
(* Rate limiter: TokenBucketRateLimiter *)

\* per_seconds of the limiters of the model, in clock units
PerSeconds == {1, 2}

\* TokenBucketRateLimiter.__init__
TokenBucketRateLimiter(max_requests, per_seconds) ==
    [max_requests |-> max_requests, per_seconds |-> per_seconds,
     timestamps |-> <<>>, lock |-> 0]

\* a thread that is not in acquire()
Caller == [pc |-> "idle", now |-> 0, wait_time |-> 0, wake |-> 0, slept |-> FALSE]

Threads == 1..Len(thr)

\* the number of calls of acquire() made so far
CallsMade == Len(grants) + Cardinality({t \in Threads : thr[t].pc # "idle"})

\* the frame of a step of acquire()
LimiterFrame ==
    UNCHANGED <<pipelineVars, invocation, to_group, digest_groups, bp, reconcile>>

InitLimiter ==
    /\ NoRunner
    /\ invocation = FirstInvocation
    /\ to_group = <<>>
    /\ digest_groups = NotCalled
    /\ \E m \in 0..MaxRequests, p \in PerSeconds : limiter = TokenBucketRateLimiter(m, p)
    /\ clock = 0
    /\ \E n \in 1..MaxThreads : thr = [t \in 1..n |-> Caller]
    /\ grants = <<>>
    /\ bp = NoBatches
    /\ reconcile = NoReconcile

\* thread t calls acquire()
AcquireCall(t) ==
    /\ thr[t].pc = "idle"
    /\ CallsMade < MaxCalls
    /\ thr' = [thr EXCEPT ![t].pc = "lock", ![t].slept = FALSE]
    /\ UNCHANGED <<limiter, clock, grants>>
    /\ LimiterFrame

RECURSIVE Evicted(_, _)
\* while timestamps and timestamps[0] <= limit: timestamps.popleft()
Evicted(timestamps, limit) ==
    IF timestamps # <<>> /\ Head(timestamps) <= limit
    THEN Evicted(Tail(timestamps), limit)
    ELSE timestamps

\* AcquireEnter entering without waiting for the lock to be free
AcquireEnter_NoLock(t) ==
    /\ thr[t].pc = "lock"
    /\ limiter' = [limiter EXCEPT
                      !.lock = t,
                      !.timestamps = Evicted(@, clock - limiter.per_seconds)]
    /\ thr' = [thr EXCEPT ![t].pc = "check", ![t].now = clock]
    /\ UNCHANGED <<clock, grants>>
    /\ LimiterFrame

\* with self._lock: the thread enters when the lock is free, reads the clock
\* and drops the timestamps that have left the window
AcquireEnter(t) ==
    /\ thr[t].pc = "lock"
    /\ limiter.lock = 0
    /\ limiter' = [limiter EXCEPT
                      !.lock = t,
                      !.timestamps = Evicted(@, clock - limiter.per_seconds)]
    /\ thr' = [thr EXCEPT ![t].pc = "check", ![t].now = clock]
    /\ UNCHANGED <<clock, grants>>
    /\ LimiterFrame

\* if len(self._timestamps) < self._max_requests: ... ; otherwise wait_time is
\* computed from timestamps[0], which raises IndexError on an empty deque,
\* and the with statement releases the lock
AcquireCheck(t) ==
    /\ thr[t].pc = "check"
    /\ IF Len(limiter.timestamps) < limiter.max_requests
       THEN /\ thr' = [thr EXCEPT ![t].pc = "append"]
            /\ UNCHANGED limiter
       ELSE IF limiter.timestamps = <<>>
       THEN /\ thr' = [thr EXCEPT ![t].pc = "raised", ![t].now = 0]
            /\ limiter' = [limiter EXCEPT !.lock = 0]
       ELSE /\ thr' = [thr EXCEPT
                          ![t].pc = "sleep",
                          ![t].now = 0,
                          ![t].wait_time = Head(limiter.timestamps)
                                             + limiter.per_seconds - thr[t].now]
            /\ limiter' = [limiter EXCEPT !.lock = 0]
    /\ UNCHANGED <<clock, grants>>
    /\ LimiterFrame

\* self._timestamps.append(now); return: the lock is released
AcquireGrant(t) ==
    /\ thr[t].pc = "append"
    /\ limiter' = [limiter EXCEPT !.timestamps = Append(@, thr[t].now), !.lock = 0]
    /\ grants' = Append(grants, thr[t].now)
    /\ thr' = [thr EXCEPT ![t].pc = "idle", ![t].now = 0]
    /\ UNCHANGED clock
    /\ LimiterFrame

\* time.sleep(wait_time) is called: the thread sleeps for at least wait_time
AcquireSleep(t) ==
    /\ thr[t].pc = "sleep"
    /\ thr' = [thr EXCEPT ![t].pc = "sleeping",
                          ![t].wake = clock + thr[t].wait_time,
                          ![t].wait_time = 0,
                          ![t].slept = TRUE]
    /\ UNCHANGED <<limiter, clock, grants>>
    /\ LimiterFrame

\* time.sleep returns and the loop of acquire() starts over
AcquireWake(t) ==
    /\ thr[t].pc = "sleeping"
    /\ clock >= thr[t].wake
    /\ thr' = [thr EXCEPT ![t].pc = "lock", ![t].wake = 0]
    /\ UNCHANGED <<limiter, clock, grants>>
    /\ LimiterFrame

\* a thread is asleep and its sleep is not over
SleeperWaits == \E t \in Threads : thr[t].pc = "sleeping" /\ clock < thr[t].wake

\* time passes
Tick ==
    /\ clock < MaxTime \/ SleeperWaits
    /\ clock' = clock + 1
    /\ UNCHANGED <<limiter, thr, grants>>
    /\ LimiterFrame

NextLimiter ==
    \/ \E t \in Threads : AcquireCall(t)
    \/ \E t \in Threads : AcquireEnter(t)
    \/ \E t \in Threads : AcquireCheck(t)
    \/ \E t \in Threads : AcquireGrant(t)
    \/ \E t \in Threads : AcquireSleep(t)
    \/ \E t \in Threads : AcquireWake(t)
    \/ Tick

SpecLimiter == InitLimiter /\ [][NextLimiter]_vars

\* a step of thread t
ThreadStep(t) ==
    \/ AcquireCall(t)
    \/ AcquireEnter(t)
    \/ AcquireCheck(t)
    \/ AcquireGrant(t)
    \/ AcquireSleep(t)
    \/ AcquireWake(t)

\* the callers are scheduled fairly: time passes, and a thread that can take
\* a step is not held back for ever
SpecLimiterFair ==
    /\ SpecLimiter
    /\ WF_vars(Tick)
    /\ \A t \in 1..MaxThreads : WF_vars(t \in Threads /\ ThreadStep(t))

----------------------------------------------------------------------------
(* Batches: process_in_batches *)

\* the items handed to process_in_batches
BatchItems == {[k \in 1..n |-> k] : n \in 0..MaxBatchItems}

\* processor(batch) of the given attempt: it returns one result per item, or
\* it returns no result, or it raises
ProcessorOutcomes(batch, attempt) ==
    { [ok |-> TRUE,
       value |-> [k \in 1..Len(batch) |-> [item |-> batch[k], attempt |-> attempt]]],
      [ok |-> TRUE, value |-> <<>>],
      [ok |-> FALSE, value |-> <<>>] }

\* a wait that does not grow with the attempts
RetryDelay_Constant(delay, attempt) == delay

\* delay = retry_delay * (attempt + 1)
RetryDelay(delay, attempt) == delay * (attempt + 1)

\* batch = items[i : i + batch_size]
CurrentBatch == Slice(bp.items, bp.i, bp.i + bp.batch_size)

\* one call processor(batch) has been made
Processed(o) ==
    Append(bp.processed,
           [i |-> bp.i, attempt |-> bp.attempt, batch |-> CurrentBatch,
            ok |-> o.ok, value |-> o.value])

BatchesFrame ==
    UNCHANGED <<pipelineVars, invocation, to_group, digest_groups, limiter, clock,
                thr, grants, reconcile>>

\* process_in_batches(items, batch_size, processor, max_retries) is entered:
\* results = [] and the loop over range(0, len(items), batch_size) begins
InitBatches ==
    /\ NoRunner
    /\ invocation = FirstInvocation
    /\ to_group = <<>>
    /\ digest_groups = NotCalled
    /\ limiter = NoLimiter
    /\ clock = 0
    /\ thr = <<>>
    /\ grants = <<>>
    /\ reconcile = NoReconcile
    /\ \E items \in BatchItems, size \in 1..MaxBatchItems, retries \in 0..max_retries :
          bp = [NoBatches EXCEPT !.items = items, !.batch_size = size,
                                 !.max_retries = retries, !.pc = "loop"]

\* an attempt is about to be made on the batch at i
InAttempt ==
    /\ bp.pc = "loop"
    /\ bp.i < Len(bp.items)
    /\ bp.attempt <= bp.max_retries

\* processor(batch) returns: results.extend(batch_results); break
BatchSucceeds ==
    /\ InAttempt
    /\ \E o \in ProcessorOutcomes(CurrentBatch, bp.attempt) :
          /\ o.ok
          /\ bp' = [bp EXCEPT !.processed = Processed(o),
                              !.results = bp.results \o o.value,
                              !.i = bp.i + bp.batch_size,
                              !.attempt = 0]
    /\ BatchesFrame

\* processor(batch) raises and attempt < max_retries: time.sleep(delay), and
\* the next attempt
BatchRetries ==
    /\ InAttempt
    /\ bp.attempt < bp.max_retries
    /\ \E o \in ProcessorOutcomes(CurrentBatch, bp.attempt) :
          /\ ~o.ok
          /\ bp' = [bp EXCEPT !.processed = Processed(o),
                              !.sleeps = Append(bp.sleeps,
                                  [i |-> bp.i, attempt |-> bp.attempt,
                                   delay |-> RetryDelay(retry_delay, bp.attempt)]),
                              !.attempt = bp.attempt + 1]
    /\ BatchesFrame

\* the last failure of a batch is swallowed and the loop goes on
BatchRaises_SkipsBatch ==
    /\ InAttempt
    /\ bp.attempt = bp.max_retries
    /\ \E o \in ProcessorOutcomes(CurrentBatch, bp.attempt) :
          /\ ~o.ok
          /\ bp' = [bp EXCEPT !.processed = Processed(o),
                              !.i = bp.i + bp.batch_size,
                              !.attempt = 0]
    /\ BatchesFrame

\* processor(batch) raises on the last attempt: raise
BatchRaises ==
    /\ InAttempt
    /\ bp.attempt = bp.max_retries
    /\ \E o \in ProcessorOutcomes(CurrentBatch, bp.attempt) :
          /\ ~o.ok
          /\ bp' = [bp EXCEPT !.processed = Processed(o), !.pc = "raised"]
    /\ BatchesFrame

\* the loop over the batches is over: return results
BatchesReturn ==
    /\ bp.pc = "loop"
    /\ bp.i >= Len(bp.items)
    /\ bp' = [bp EXCEPT !.pc = "returned", !.value = bp.results]
    /\ BatchesFrame

NextBatches == BatchSucceeds \/ BatchRetries \/ BatchRaises \/ BatchesReturn

SpecBatches == InitBatches /\ [][NextBatches]_vars

\* the processor and time.sleep return: the call is not held back for ever
SpecBatchesFair == SpecBatches /\ WF_vars(NextBatches)

----------------------------------------------------------------------------
(* _parse_draft_response on its own: one batch of actionable conversations  *)
(* and any "drafts" array                                                    *)

\* the batches draft_replies may hand to _draft_batch: actionable
\* conversations as categorize_all classified them
DraftBatches ==
    UNION {LET threads == consolidate_into_threads(emails)
           IN  {CategorizedAs(threads, cats) :
                   cats \in [1..Len(threads) -> {ACTION_EVENTUALLY, ACTION_IMMEDIATELY}]}
           : emails \in Mailboxes \ {<<>>}}

\* any "drafts" array of at most MaxItems entries
DraftAnswers ==
    SeqsUpTo({DraftItem(id, a) : id \in ThreadIds \cup {UnknownId}, a \in BOOLEAN},
             MaxItems)

InitReconcile ==
    /\ NoRunner
    /\ invocation = FirstInvocation
    /\ to_group = <<>>
    /\ digest_groups = NotCalled
    /\ limiter = NoLimiter
    /\ clock = 0
    /\ thr = <<>>
    /\ grants = <<>>
    /\ bp = NoBatches
    /\ \E threads \in DraftBatches, items \in DraftAnswers :
          reconcile = [NoReconcile EXCEPT !.threads = threads, !.items = items]

\* a call _parse_draft_response(response, threads) on a tool_use block with
\* the entries items
ParseDraftResponse ==
    /\ ~reconcile.called
    /\ reconcile' = [reconcile EXCEPT
                        !.called = TRUE,
                        !.value = _parse_draft_response(reconcile.items,
                                                        reconcile.threads)]
    /\ UNCHANGED <<pipelineVars, invocation, to_group, digest_groups, limiter, clock,
                   thr, grants, bp>>

NextReconcile == ParseDraftResponse

SpecReconcile == InitReconcile /\ [][NextReconcile]_vars

TypeOK ==
    /\ current_state \in PipelineState
    /\ pc \in {"run", "categorize_all", "draft_replies", "except", "return", "done", "idle"}
    /\ raised \in SeqsUpTo(PipelineState, 1)
    /\ idx \in 1..Len(_STATE_ORDER)
    /\ context.success \in BOOLEAN

----------------------------------------------------------------------------
(* Properties of PipelineRunner.run() *)

Last(s) == s[Len(s)]

Occurrences(s, x) == Cardinality({i \in 1..Len(s) : s[i] = x})

IsPrefix(s, t) == Len(s) <= Len(t) /\ s = SubSeq(t, 1, Len(s))

\* run() has gone through the REPORT handler and is returning or has returned
RunOver == pc \in {"return", "done"}

Sends == SelectSeq(calls, LAMBDA c : c.op = "slack.send")

\* C1: in every run, whether or not a handler raised, the REPORT handler is
\* invoked exactly once and is the last handler invoked: it is never invoked
\* twice, nothing is invoked after it, and no run is over without it.
C1_ReportOnceAndLast ==
    /\ Occurrences(invoked, REPORT) <= 1
    /\ REPORT \in Range(invoked) => Last(invoked) = REPORT
    /\ RunOver => Occurrences(invoked, REPORT) = 1

\* a run in which DRAFT_REPLIES raised has returned, after REPORT
C1_Witness ==
    /\ pc = "done"
    /\ raised = <<DRAFT_REPLIES>>
    /\ Last(invoked) = REPORT

\* C2: run() never raises: whatever the handlers, the report file and the
\* delivery do, no exception leaves run(), run() can always take its next step
\* until it has returned, and what it returns has status "success" or "error".
C2_RunNeverRaises ==
    /\ pc # "raised"
    /\ pc # "done" => ENABLED Next
    /\ pc = "done" => response.status \in {"success", "error"}

\* a run has returned although a handler raised and the delivery of the
\* failure alert failed as well
C2_Witness ==
    /\ pc = "done"
    /\ raised # <<>>
    /\ \E i \in 1..Len(calls) : calls[i].op = "slack.send" /\ ~calls[i].ok
    /\ response.status = "error"

\* C3: when the handler of a non-terminal state raises, the runner records
\* success = false, that state as failed_state and one formatted error string,
\* and from then on REPORT is the only handler invoked.
C3_FailureRecordedThenOnlyReport ==
    raised # <<>> =>
        /\ Len(raised) = 1
        /\ raised[1] # REPORT
        /\ ~context.success
        /\ context.failed_state = raised[1]
        /\ context.errors = <<<<raised[1], context.error.type, context.error.msg>>>>
        /\ \E k \in 1..Len(invoked) :
              /\ invoked[k] = raised[1]
              /\ SubSeq(invoked, k + 1, Len(invoked)) \in {<<>>, <<REPORT>>}
        /\ RunOver => Last(invoked) = REPORT

\* GATHER_EMAILS raised and the run went to REPORT without categorizing
C3_Witness ==
    /\ raised = <<GATHER_EMAILS>>
    /\ invoked = <<INIT, GATHER_EMAILS, REPORT>>
    /\ pc = "done"

\* C4: when no handler raises, the handlers are invoked in the order of
\* _STATE_ORDER, each once, none skipped, and the run returns "success".
C4_SuccessPathInOrder ==
    raised = <<>> =>
        /\ IsPrefix(invoked, _STATE_ORDER)
        /\ RunOver => invoked = _STATE_ORDER
        /\ pc = "done" => response.status = "success"

\* a run over a non-empty mailbox went through all seven handlers
C4_Witness ==
    /\ pc = "done"
    /\ raised = <<>>
    /\ context.raw_emails # <<>>
    /\ invoked = _STATE_ORDER

\* C5 as stated: every run in which a handler raised returns "error" and has
\* delivered a failure alert naming the failing stage. Fails when delivery is
\* disabled: REPORT then does nothing.
C5_FailedRunAlwaysAlerts ==
    (pc = "done" /\ raised # <<>>) =>
        /\ response.status = "error"
        /\ \E i \in 1..Len(calls) :
              calls[i].op = "slack.send" /\ calls[i].payload = raised[1]

\* C5 amended: every run in which a handler raised returns "error"; with
\* delivery enabled REPORT makes exactly one delivery attempt, of a failure
\* alert naming the failing stage, and the delivered flag tells whether it
\* succeeded; with delivery disabled nothing is sent.
C5_FailedRunAlertsIfEnabled ==
    (pc = "done" /\ raised # <<>>) =>
        /\ response.status = "error"
        /\ config.slack_enabled =>
              /\ Len(Sends) = 1
              /\ Sends[1].payload = raised[1]
              /\ response.slack_sent = Sends[1].ok
        /\ ~config.slack_enabled => Sends = <<>> /\ ~response.slack_sent

\* a failed run with delivery enabled has sent its alert
C5_Witness ==
    /\ pc = "done"
    /\ raised = <<GROUP_EMAILS>>
    /\ config.slack_enabled
    /\ response.slack_sent

SuccessEdges ==
    {<<_STATE_ORDER[i], _STATE_ORDER[i + 1]>> : i \in 1..(Len(_STATE_ORDER) - 1)}

FailureEdges == {<<s, REPORT>> : s \in Range(_STATE_ORDER) \ {REPORT}}

\* C6 as stated: every recorded transition is an edge of the success path or
\* a failure edge into REPORT, REPORT is never left, and the current state is
\* one of the seven states. Fails on the first record of every run: run()
\* enters INIT from INIT and records INIT -> INIT.
C6_OnlyDiagramEdges ==
    /\ \A i \in 1..Len(transitions) :
          /\ transitions[i] \in SuccessEdges \cup FailureEdges
          /\ transitions[i][1] # REPORT
    /\ current_state \in Range(_STATE_ORDER)

\* C6 amended: the first recorded transition of a run is INIT -> INIT; every
\* other one is an edge of the success path or a failure edge into REPORT;
\* REPORT is never left, each record starts where the previous one ended, and
\* the current state is one of the seven states.
C6_DiagramEdgesAfterInit ==
    /\ \A i \in 1..Len(transitions) :
          /\ i = 1 => transitions[i] = <<INIT, INIT>>
          /\ i > 1 => /\ transitions[i] \in SuccessEdges \cup FailureEdges
                      /\ transitions[i][1] = transitions[i - 1][2]
          /\ transitions[i][1] # REPORT
    /\ current_state \in Range(_STATE_ORDER)
    /\ transitions # <<>> => current_state = Last(transitions)[2]

\* the record of a run that failed in CATEGORIZE_EMAILS ends with the failure edge
C6_Witness ==
    /\ pc = "done"
    /\ Len(transitions) = 4
    /\ Last(transitions) = <<CATEGORIZE_EMAILS, REPORT>>
    /\ current_state = REPORT

----------------------------------------------------------------------------
(* Properties of EmailCategorizer.categorize_all *)

\* categorize_all has returned and _execute_categorize has stored its result
CategorizeReturned == pc = "run" /\ idx = 4 /\ context.threads # <<>>

CategorizeCalls == SelectSeq(calls, LAMBDA c : c.op = "anthropic.categorize")

\* the entries of the output for the conversation id
EntriesFor(id) ==
    SelectSeq(context.categorized_threads, LAMBDA ct : ct.thread.thread_id = id)

FailedSummary == "[Categorization failed - please review manually]"

\* C7: whatever the service does, categorize_all returns as many elements as
\* it was given. Fails: an answer that leaves a conversation out shortens the
\* output, one that repeats a conversation lengthens it.
C7_OutputLengthIsInputLength ==
    CategorizeReturned => Len(context.categorized_threads) = Len(context.threads)

\* C8: a conversation of the batch that a successful answer leaves out is
\* still in the output, with a placeholder classification whose reasoning
\* explains it. Fails: the conversation is not in the output at all.
C8_OmittedGetsPlaceholder ==
    CategorizeReturned =>
        \A k \in 1..Len(CategorizeCalls) :
            CategorizeCalls[k].ok =>
                \A id \in Range(CategorizeCalls[k].ids) \ Range(CategorizeCalls[k].answered) :
                    /\ Len(EntriesFor(id)) = 1
                    /\ EntriesFor(id)[1].categorization.category = SUMMARY_ONLY
                    /\ EntriesFor(id)[1].categorization.reasoning # <<>>

\* the number of batches of n conversations
Batches(n, size) == (n + size - 1) \div size

\* C9: when the call for one batch fails, categorize_all does not raise; every
\* conversation of that batch is in the output once, with category Summary
\* Only, priority 5 and a reasoning that contains the error text; every other
\* batch, before and after, is still sent, and its answered conversations are
\* in the output with the service's classification, not the placeholder.
C9_FailedBatchIsolated ==
    /\ pc # "raised"
    /\ pc = "categorize_all" => ENABLED NextCategorize
    /\ \A k \in 1..Len(CategorizeCalls) :
          CategorizeCalls[k].ids =
              [j \in 1..Len(Slice(context.threads, (k - 1) * config.batch_size,
                                  k * config.batch_size)) |->
                  context.threads[(k - 1) * config.batch_size + j].thread_id]
    /\ CategorizeReturned =>
          /\ Len(CategorizeCalls) = Batches(Len(context.threads), config.batch_size)
          /\ \A k \in 1..Len(CategorizeCalls) :
                LET c == CategorizeCalls[k]
                IN  \A id \in Range(c.ids) :
                      IF ~c.ok
                      THEN /\ Len(EntriesFor(id)) = 1
                           /\ EntriesFor(id)[1].thread \in Range(context.threads)
                           /\ EntriesFor(id)[1].categorization.category = SUMMARY_ONLY
                           /\ EntriesFor(id)[1].categorization.priority = 5
                           /\ c.payload \in Range(EntriesFor(id)[1].categorization.reasoning)
                      ELSE /\ Len(EntriesFor(id)) = Occurrences(c.answered, id)
                           /\ \A j \in 1..Len(EntriesFor(id)) :
                                 EntriesFor(id)[j].categorization.summary # FailedSummary

\* the first of two batches failed, the second was answered, and both
\* conversations are in the output
C9_Witness ==
    /\ CategorizeReturned
    /\ Len(CategorizeCalls) = 2
    /\ ~CategorizeCalls[1].ok
    /\ CategorizeCalls[2].ok
    /\ CategorizeCalls[2].answered = CategorizeCalls[2].ids
    /\ Len(context.categorized_threads) = 2

\* C10: in a run where a categorization batch call fails and nothing else
\* does, the result status is "success" and the error list holds a record of
\* the batch failure. Fails: the placeholders reach GROUP_EMAILS, whose handler
\* raises, and categorize_all records nothing in the error list.
C10_BatchFailureKeepsSuccess ==
    ( /\ pc = "done"
      /\ SlackConfigValid(config)
      /\ \E i \in 1..Len(calls) : calls[i].op = "anthropic.categorize" /\ ~calls[i].ok
      /\ \A i \in 1..Len(calls) : calls[i].op # "anthropic.categorize" => calls[i].ok )
    =>
        /\ response.status = "success"
        /\ \E i \in 1..Len(calls) :
              /\ calls[i].op = "anthropic.categorize"
              /\ ~calls[i].ok
              /\ \E j \in 1..Len(response.errors) :
                    calls[i].payload \in Range(response.errors[j])

\* what the output of categorize_all holds for the calls cs: for an answered
\* call the entries of the answer that name a conversation of the request, in
\* the order of the answer; for a failed call the conversations of the request
RECURSIVE ExpectedIds(_)
ExpectedIds(cs) ==
    IF cs = <<>> THEN <<>>
    ELSE LET c == cs[Len(cs)]
         IN  ExpectedIds(SubSeq(cs, 1, Len(cs) - 1))
             \o (IF c.ok THEN c.answered ELSE c.ids)

\* C11: an entry of a classification response whose id is not the id of a
\* conversation of the batch that was sent leaves nothing in the output of
\* categorize_all: every element of the output, while it is built and when it
\* is returned, is one of the input conversations, and the output holds, call
\* by call, exactly the entries that name a conversation of the call's batch.
C11_UnknownIdsDropped ==
    /\ \A i \in 1..Len(loc.all_results) :
          loc.all_results[i].thread \in Range(context.threads)
    /\ pc = "categorize_all" => CtIds(loc.all_results) = ExpectedIds(CategorizeCalls)
    /\ CategorizeReturned =>
          /\ \A i \in 1..Len(context.categorized_threads) :
                context.categorized_threads[i].thread \in Range(context.threads)
          /\ CtIds(context.categorized_threads) = ExpectedIds(CategorizeCalls)

\* categorize_all has returned after an answer that held an entry for an id
\* outside its batch next to one for a conversation of the batch
C11_Witness ==
    /\ CategorizeReturned
    /\ \E k \in 1..Len(CategorizeCalls) :
          /\ CategorizeCalls[k].ok
          /\ CategorizeCalls[k].unknown > 0
          /\ CategorizeCalls[k].answered # <<>>
    /\ context.categorized_threads # <<>>

\* the priorities of the output of categorize_all
OutputPriorities ==
    [i \in 1..Len(context.categorized_threads) |->
        context.categorized_threads[i].categorization.priority]

\* the priorities the output has to hold for the calls cs: for an answered
\* call the raw priority of each entry brought into 1..10, a missing one taken
\* as 5; for a failed call the 5 of the placeholder
RECURSIVE NormalizedPriorities(_)
NormalizedPriorities(cs) ==
    IF cs = <<>> THEN <<>>
    ELSE LET c == cs[Len(cs)]
             norm(r) == IF ~r.present THEN 5
                        ELSE IF r.value < 1 THEN 1
                        ELSE IF r.value > 10 THEN 10
                        ELSE r.value
         IN  NormalizedPriorities(SubSeq(cs, 1, Len(cs) - 1))
             \o (IF c.ok THEN [j \in 1..Len(c.raw) |-> norm(c.raw[j])]
                 ELSE [j \in 1..Len(c.ids) |-> 5])

\* C12: every classification in the output of categorize_all has an integer
\* priority in 1..10 whatever raw priority the service supplied: a raw value
\* below 1 becomes 1, one above 10 becomes 10, one inside the range is kept,
\* and a missing one yields 5.
C12_PriorityNormalized ==
    /\ \A i \in 1..Len(loc.all_results) :
          loc.all_results[i].categorization.priority \in 1..10
    /\ CategorizeReturned =>
          /\ \A i \in 1..Len(OutputPriorities) : OutputPriorities[i] \in 1..10
          /\ OutputPriorities = NormalizedPriorities(CategorizeCalls)

\* categorize_all has returned classifications for raw priorities below 1 and
\* above 10, or for a raw priority above 10 and a missing one
C12_Witness ==
    /\ CategorizeReturned
    /\ \E k, l \in 1..Len(CategorizeCalls) :
          /\ CategorizeCalls[k].ok /\ CategorizeCalls[l].ok
          /\ \E r \in Range(CategorizeCalls[k].raw) : r.present /\ r.value > 10
          /\ \E r \in Range(CategorizeCalls[l].raw) : ~r.present \/ r.value < 1
    /\ Len(context.categorized_threads) = 2

----------------------------------------------------------------------------
(* Properties of EmailCategorizer.draft_replies *)

\* the DRAFT_REPLIES handler has returned and stored what draft_replies gave
DraftReturned == pc = "run" /\ idx = 5 /\ Last(invoked) = DRAFT_REPLIES

DraftCalls == SelectSeq(calls, LAMBDA c : c.op = "anthropic.draft")

\* the step in which draft_replies returns to _execute_draft_replies: from its
\* loop, or at once when there is nothing actionable
DraftRepliesReturns ==
    \/ pc = "draft_replies" /\ pc' = "run"
    \/ /\ AtState(DRAFT_REPLIES) /\ pc' = "run"
       /\ context.categorized_threads # <<>>

\* the conversations of cts in which awaiting_reply and suggested_reply agree
ReplyOnlyWhenAwaiting(cts) ==
    \A i \in 1..Len(cts) :
        ~cts[i].categorization.awaiting_reply =>
            cts[i].categorization.suggested_reply = None

\* C13: after draft_replies, and in every list it builds on the way, a
\* conversation whose awaiting_reply is false has no suggested reply: also
\* when the answer supplied reply text with awaiting_reply false, when the
\* answer left the conversation out and when the call for its batch failed.
C13_ReplyOnlyWhenAwaiting ==
    /\ ReplyOnlyWhenAwaiting(loc.drafted)
    /\ ReplyOnlyWhenAwaiting(context.categorized_threads)

\* draft_replies has returned two actionable conversations: for one the answer
\* set awaiting_reply, for the other it supplied reply text without it
C13_Witness ==
    /\ DraftReturned
    /\ \E k \in 1..Len(DraftCalls) : DraftCalls[k].ok /\ Len(DraftCalls[k].answered) = 2
    /\ \E i, j \in 1..Len(context.categorized_threads) :
          /\ context.categorized_threads[i].categorization.awaiting_reply
          /\ context.categorized_threads[i].categorization.suggested_reply = "reply"
          /\ IsActionable(context.categorized_threads[j])
          /\ ~context.categorized_threads[j].categorization.awaiting_reply

\* C14: given conversations with distinct ids, draft_replies returns as many
\* conversations as it was given and every input id exactly once, whatever
\* the service does: ids left out, unknown ids, repeated ids, failed calls.
C14_SameConversationsOnce ==
    [][DraftRepliesReturns =>
          /\ Len(context'.categorized_threads) = Len(context.categorized_threads)
          /\ \A id \in Range(CtIds(context.categorized_threads)) :
                Occurrences(CtIds(context'.categorized_threads), id) = 1]_vars

\* draft_replies has returned both conversations after an answer that named
\* one of them twice, an answer with an unknown id and a failed call
C14_Witness ==
    /\ DraftReturned
    /\ Len(context.categorized_threads) = 2
    /\ \E k \in 1..Len(DraftCalls) :
          DraftCalls[k].ok /\ Len(DraftCalls[k].answered) = 2
                          /\ DraftCalls[k].answered[1] = DraftCalls[k].answered[2]
    /\ \E k \in 1..Len(DraftCalls) :
          ~DraftCalls[k].ok \/ DraftCalls[k].unknown > 0

\* C15: the ids of the output of draft_replies are in the order of the input.
\* Fails: the Summary Only conversations are moved behind the actionable ones,
\* and the actionable ones come out in the order of the answer.
C15_OrderPreserved ==
    [][DraftRepliesReturns =>
          CtIds(context'.categorized_threads) = CtIds(context.categorized_threads)]_vars

\* the conversation of cts with the id
WithId(cts, id) == SelectSeq(cts, LAMBDA ct : ct.thread.thread_id = id)

\* C16: no Summary Only conversation is in a draft request; every Summary Only
\* conversation is in the output of the stage with its classification
\* unchanged; with nothing actionable, no call is made and the input is
\* returned as it is.
C16_SummaryOnlyUntouched ==
    [][/\ pc' = "draft_replies" =>
            \A k \in 1..Len(DraftCalls') :
                /\ DraftCalls'[k].ids # <<>>
                /\ \A id \in Range(DraftCalls'[k].ids) :
                      \A ct \in Range(WithId(context'.categorized_threads, id)) :
                          ~IsSummaryOnly(ct)
       /\ DraftRepliesReturns =>
            /\ \A ct \in Range(context.categorized_threads) :
                  IsSummaryOnly(ct) =>
                      Occurrences(context'.categorized_threads, ct) = 1
            /\ (\A ct \in Range(context.categorized_threads) : IsSummaryOnly(ct)) =>
                  /\ context'.categorized_threads = context.categorized_threads
                  /\ calls' = calls]_vars

\* draft_replies has returned a Summary Only conversation next to an
\* actionable one for which a draft request was made
C16_Witness ==
    /\ DraftReturned
    /\ Len(DraftCalls) = 1
    /\ Len(DraftCalls[1].ids) = 1
    /\ \E ct \in Range(context.categorized_threads) :
          IsSummaryOnly(ct) /\ ct.thread.thread_id \notin Range(DraftCalls[1].ids)
    /\ \E ct \in Range(context.categorized_threads) :
          IsActionable(ct) /\ ct.thread.thread_id \in Range(DraftCalls[1].ids)

----------------------------------------------------------------------------
(* Properties of the batch calls of a run *)

\* the calls of categorize_all and draft_replies to the reasoning service
BatchCalls ==
    SelectSeq(calls, LAMBDA c : c.op \in {"anthropic.categorize", "anthropic.draft"})

\* the calls a and b are attempts of the same batch
SameBatch(a, b) == a.op = b.op /\ a.ids = b.ids

\* the number of failed attempts of its batch that end with the call k
FailedAttempts(cs, k) ==
    Cardinality({j \in 1..k :
                    \A i \in j..k : ~cs[i].ok /\ SameBatch(cs[i], cs[k])})

\* C17: in categorize_all and in draft_replies a batch whose call fails is
\* tried again until the retry budget is used up: a failed call is followed by
\* another call for the same batch unless it is the last of max_retries + 1
\* failed attempts. Fails: the batch gets its placeholder or pass-through
\* result after the first failed call.
C17_FailedBatchRetried ==
    \A k \in 1..Len(BatchCalls) :
        ~BatchCalls[k].ok =>
            \/ k < Len(BatchCalls) /\ SameBatch(BatchCalls[k + 1], BatchCalls[k])
            \/ FailedAttempts(BatchCalls, k) = max_retries + 1

----------------------------------------------------------------------------
(* Properties of a run over an empty or a non-empty mailbox *)

FetchOk == Call("gmail.fetch", <<>>, TRUE, <<>>, "")

\* the mail source was asked and returned zero messages
FetchedNothing == FetchOk \in Range(calls) /\ context.raw_emails = <<>>

\* C18: when the mail source returns zero messages the run goes through every
\* stage and none fails: the fetch is the only call to a collaborator (no
\* call to the reasoning service, no report file, no delivery attempt), the
\* context stays empty, the digest has total count 0, and the result has
\* status "success", an empty per-category map, delivered flag false and no
\* report location.
C18_EmptyMailboxRun ==
    FetchedNothing =>
        /\ raised = <<>>
        /\ context.success /\ context.failed_state = None /\ context.errors = <<>>
        /\ calls = <<FetchOk>>
        /\ context.threads = <<>>
        /\ context.categorized_threads = <<>>
        /\ context.groups = <<>>
        /\ IsPrefix(invoked, _STATE_ORDER)
        /\ GENERATE_REPORT \in Range(invoked) =>
              /\ context.digest.present
              /\ context.digest.total_threads = 0
              /\ context.digest.total_messages = 0
        /\ RunOver => invoked = _STATE_ORDER
        /\ pc = "done" =>
              /\ response.status = "success"
              /\ response.threads_processed = 0
              /\ response.emails_by_category = <<>>
              /\ ~response.slack_sent
              /\ response.report_location = None

\* a run with delivery enabled has returned after the mail source gave nothing
C18_Witness ==
    /\ pc = "done"
    /\ FetchedNothing
    /\ config.slack_enabled
    /\ invoked = _STATE_ORDER
    /\ response.status = "success"

\* C19: with a non-empty categorized list the GROUP_EMAILS handler completes
\* without raising and the run goes on to GENERATE_REPORT. Fails: the handler
\* calls a method the grouper does not have, so it raises for every non-empty
\* list, stores no groups and the run jumps to REPORT.
C19_GroupCompletes ==
    (GROUP_EMAILS \in Range(invoked) /\ context.categorized_threads # <<>>) =>
        /\ GROUP_EMAILS \notin Range(raised)
        /\ context.success
        /\ Last(invoked) = GROUP_EMAILS => pc = "run" /\ _STATE_ORDER[idx] = GENERATE_REPORT
        /\ RunOver => GENERATE_REPORT \in Range(invoked)

ReportWrites == SelectSeq(calls, LAMBDA c : c.op = "report.write")

----------------------------------------------------------------------------
(* Properties of the REPORT and INIT handlers *)

ReportHandlerRuns == invoked' = Append(invoked, REPORT)

\* C22: with delivery disabled the REPORT handler does nothing, on a
\* successful run and on a failed one: it leaves the context as it is and
\* calls no collaborator, no delivery call is made at any point of the run,
\* and the delivered flag of the result is false.
C22_DisabledReportIsNoOp ==
    [][~config.slack_enabled =>
          /\ ReportHandlerRuns => context' = context /\ calls' = calls
          /\ Sends' = <<>>
          /\ ~context'.slack_sent
          /\ pc' = "done" => ~response'.slack_sent]_vars

\* a failed run with delivery disabled has returned without a delivery call
C22_Witness ==
    /\ pc = "done"
    /\ ~config.slack_enabled
    /\ raised = <<GATHER_EMAILS>>
    /\ Last(invoked) = REPORT
    /\ Sends = <<>>

\* C23: with delivery enabled and the channel credentials missing, INIT
\* raises a configuration error: the mail source is never called, no handler
\* but REPORT runs after INIT, and the result has status "error" with INIT as
\* the failing stage; with delivery disabled INIT never raises, whatever the
\* credentials.
C23_InitValidatesDelivery ==
    /\ (config.slack_enabled /\ ~config.slack_credentials /\ invoked # <<>>) =>
          /\ raised = <<INIT>>
          /\ context.error = ConfigError
          /\ context.failed_state = INIT
          /\ invoked \in {<<INIT>>, <<INIT, REPORT>>}
          /\ \A i \in 1..Len(calls) : calls[i].op = "slack.send"
          /\ context.raw_emails = <<>>
          /\ RunOver => invoked = <<INIT, REPORT>>
          /\ pc = "done" => response.status = "error"
    /\ ~config.slack_enabled => INIT \notin Range(raised)

\* a run with delivery enabled and no credentials has returned, failed in INIT
C23_Witness ==
    /\ pc = "done"
    /\ config.slack_enabled /\ ~config.slack_credentials
    /\ raised = <<INIT>>
    /\ response.status = "error"

----------------------------------------------------------------------------
(* Properties of the digest GENERATE_REPORT builds *)

\* the three category buckets of a digest
Buckets(d) == <<d.action_immediately, d.action_eventually, d.summary_only>>

\* C24: in every digest GENERATE_REPORT builds the three category buckets are
\* pairwise disjoint, every entry of the categorized list is in the buckets as
\* many times as it is in the list (once, for a list without repetition) and
\* nothing else is, and the lengths of the buckets sum to the digest's total
\* conversation count, the length of the categorized list.
C24_DigestPartition ==
    context.digest.present =>
        LET d == context.digest
            cts == context.categorized_threads
            b == Buckets(d)
        IN  /\ \A i, j \in 1..3 : i # j => Range(b[i]) \cap Range(b[j]) = {}
            /\ \A ct \in Range(cts) \cup Range(b[1]) \cup Range(b[2]) \cup Range(b[3]) :
                  Occurrences(cts, ct)
                      = Occurrences(b[1], ct) + Occurrences(b[2], ct) + Occurrences(b[3], ct)
            /\ Len(b[1]) + Len(b[2]) + Len(b[3]) = d.total_threads
            /\ d.total_threads = Len(cts)

\* a digest built from two conversations of different categories
C24_Witness ==
    /\ context.digest.present
    /\ context.digest.total_threads = 2
    /\ Len(context.digest.action_immediately) = 1
    /\ Len(context.digest.action_eventually) = 1

----------------------------------------------------------------------------
(* Properties of successive invocations *)

FailedCalls(op, payload) ==
    SelectSeq(calls, LAMBDA c : c.op = op /\ ~c.ok /\ c.payload = payload)

\* what the run in progress shows is its own: run() starts on an untouched
\* context, and the result of a run that has returned is determined by what
\* happened in this run
OwnResult ==
    /\ (pc = "run" /\ idx = 1) => context = PipelineContext
    /\ FetchOk \notin Range(calls) =>
          /\ context.raw_emails = <<>>
          /\ context.threads = <<>>
          /\ context.categorized_threads = <<>>
    /\ pc = "done" =>
          /\ response.status = IF raised = <<>> THEN "success" ELSE "error"
          /\ context.failed_state = IF raised = <<>> THEN None ELSE raised[1]
          /\ Len(response.errors)
                = Len(raised) + Len(FailedCalls("report.write", "write failed"))
                              + Len(FailedCalls("slack.send", "digest"))

\* C25 as stated: every call of run() starts from a fresh context, also a
\* call on a runner that has run before, so that a run with no failing stage
\* after a failed run on the same runner returns "success" with only its own
\* errors. Fails: run() does not reset the context.
C25_FreshContextPerRun == OwnResult

\* C25, amended: every invocation of the handler runs on a runner of its own,
\* constructed with a fresh context, and the first run() of a runner shows
\* nothing of earlier invocations: its result is determined by what happened
\* in this run.
C25_FreshContextPerInvocation == invocation.run = 1 => OwnResult

\* a second invocation of the handler has returned "success" after an
\* invocation that returned "error"
C25_Witness ==
    /\ invocation.handler = 2
    /\ invocation.run = 1
    /\ invocation.failed_before
    /\ pc = "done"
    /\ response.status = "success"
    /\ response.errors = <<>>

----------------------------------------------------------------------------
(* Properties of the Grouper *)

\* the message ids of the members of each group
GroupPartition(groups) ==
    {{groups[i].threads[j].email.message_id : j \in 1..Len(groups[i].threads)} :
        i \in 1..Len(groups)}

\* the members of the groups, in the order of the groups
RECURSIVE Flatten(_)
Flatten(groups) ==
    IF groups = <<>> THEN <<>> ELSE Head(groups).threads \o Flatten(Tail(groups))

SortedDescending(ns) == \A i, j \in 1..Len(ns) : i < j => ns[i] >= ns[j]

\* C26: the Grouper returns, for every input list, groups in which every
\* input conversation is a member of exactly one group, conversations are in
\* the same group exactly when their senders have the same domain, the
\* members of a group are sorted by priority descending, each group's maximum
\* priority is the largest member priority, and the groups are sorted by that
\* maximum descending. Fails: the Grouper raises on every non-empty input.
C26_GroupsPartitionByDomain ==
    digest_groups.called =>
        /\ ~digest_groups.raised
        /\ LET groups == digest_groups.value
               members == Flatten(groups)
           IN  /\ Len(members) = Len(to_group)
               /\ Range(members) = Range(to_group)
               /\ \A i \in 1..Len(groups) :
                     /\ groups[i].threads # <<>>
                     /\ SortedDescending(EmailPriorities(groups[i].threads))
                     /\ groups[i].highest_priority
                           = MaxOf(EmailPriorities(groups[i].threads))
                     /\ \A j \in 1..Len(groups) : \A a \in Range(groups[i].threads) :
                           \A b \in Range(groups[j].threads) :
                               (i = j) <=> (EmailDomain(a.email.sender_email)
                                               = EmailDomain(b.email.sender_email))
               /\ SortedDescending([i \in 1..Len(groups) |-> groups[i].highest_priority])

\* C27: running the Grouper on the flattened output of a run of the Grouper
\* returns groups with the same partition of the conversations as the first
\* run. Fails: the first run raises on every non-empty input, so there is no
\* output to run the Grouper on.
C27_GroupingIdempotent ==
    digest_groups.called =>
        /\ ~digest_groups.raised
        /\ LET again == group_emails(Flatten(digest_groups.value))
           IN  /\ ~again.raised
               /\ GroupPartition(again.value) = GroupPartition(digest_groups.value)

----------------------------------------------------------------------------
(* Properties of the consolidation *)

\* the conversations in the context are a consolidation of the messages in it
Consolidated ==
    LET emails == context.raw_emails
        threads == context.threads
    IN  /\ \A m \in Range(emails) :
              /\ Cardinality({i \in 1..Len(threads) : m \in Range(threads[i].messages)}) = 1
              /\ \A i \in 1..Len(threads) :
                    m \in Range(threads[i].messages) =>
                        /\ threads[i].thread_id = m.thread_id
                        /\ Occurrences(threads[i].messages, m) = 1
        /\ \A i \in 1..Len(threads) :
              /\ Range(threads[i].messages) \subseteq Range(emails)
              /\ threads[i].messages # <<>>
              /\ \A j, k \in 1..Len(threads[i].messages) :
                    j < k => threads[i].messages[j].date <= threads[i].messages[k].date
              /\ threads[i].message_count = Len(threads[i].messages)
              /\ threads[i].latest_date = Last(threads[i].messages).date
        /\ \A i, j \in 1..Len(threads) :
              i < j => threads[i].latest_date >= threads[j].latest_date

\* the mail source has returned messages and the GATHER_EMAILS handler is over
GatheredMessages ==
    /\ Last(invoked) = GATHER_EMAILS
    /\ FetchOk \in Range(calls)
    /\ context.raw_emails # <<>>

\* C28: for every list of messages the mail source returns, the consolidation
\* returns conversations such that each message is in exactly one of them,
\* the one with its conversation id, each conversation has its messages
\* sorted by timestamp ascending, its count equal to the number of its
\* messages and its latest timestamp that of its last message, and the
\* conversations are sorted by latest timestamp descending. Fails: for a list
\* that holds a timestamp without a UTC offset and one with an offset the
\* consolidation raises.
C28_ConsolidationInvariants ==
    GatheredMessages => raised = <<>> /\ Consolidated

\* the part of C28 that holds: whenever the consolidation returns, what it
\* returns is a consolidation of the messages
ConsolidatedWhenReturned ==
    (GatheredMessages /\ raised = <<>>) => Consolidated

----------------------------------------------------------------------------
(* Properties of the rate limiter *)

\* C29: whatever the interleaving of the threads calling acquire(), the
\* stored window never holds more than max_requests timestamps, and no more
\* than max_requests acquisitions are granted in a window of length
\* per_seconds: of any max_requests + 1 grants, the last is at least
\* per_seconds after the first, a grant being timed by the clock reading
\* acquire() records for it.
C29_AtMostMaxPerWindow ==
    /\ Len(limiter.timestamps) <= limiter.max_requests
    /\ \A i, j \in 1..Len(grants) :
          j = i + limiter.max_requests => grants[j] >= grants[i] + limiter.per_seconds
    /\ \A i, j \in 1..Len(grants) : i < j => grants[i] <= grants[j]

\* of two threads contending for one slot per window, one has been granted
\* a slot after the window of the first grant had passed, while the other is
\* still asleep
C29_Witness ==
    /\ Len(thr) = 2
    /\ limiter.max_requests = 1
    /\ Len(grants) = 2
    /\ grants[2] >= grants[1] + limiter.per_seconds
    /\ thr[1].pc = "sleeping"
    /\ thr[2].pc = "idle" /\ thr[2].slept

\* thread t is in a call of acquire() that has not returned
Pending(t) == t \in Threads /\ thr[t].pc \notin {"idle", "raised"}

\* no call of acquire() has raised
NeverRaises == \A t \in Threads : thr[t].pc # "raised"

\* a single caller does not sleep twice in one call of acquire()
SingleCallerSleepsOnce ==
    (Len(thr) = 1 /\ thr[1].pc = "sleep") => ~thr[1].slept

\* C30: for every configuration, max_requests = 0 included, acquire() never
\* raises; a single caller sleeps at most once in a call; and with fairly
\* scheduled callers every call of acquire() that has started returns. Fails:
\* with max_requests = 0 the first call raises IndexError.
C30_AcquireBlocksAndReturns ==
    /\ [](NeverRaises /\ SingleCallerSleepsOnce)
    /\ \A t \in 1..MaxThreads : Pending(t) ~> (t \in Threads /\ thr[t].pc = "idle")

\* the part of C30 that holds: a limiter with max_requests >= 1 never raises,
\* a single caller sleeps at most once in a call, and with fairly scheduled
\* callers making a bounded number of calls every call returns
AcquireReturnsWhenPositive ==
    limiter.max_requests >= 1 => C30_AcquireBlocksAndReturns

----------------------------------------------------------------------------
(* Properties of process_in_batches *)

\* the calls processor(batch) made on the batch at i
AttemptsOn(i) == SelectSeq(bp.processed, LAMBDA p : p.i = i)

\* the batches the loop has reached
BatchStarts == {bp.processed[k].i : k \in 1..Len(bp.processed)}

BatchesOver == bp.pc \in {"returned", "raised"}

\* the batches are items[0:n], items[n:2n], ... and they are reached in order
ContiguousBatches ==
    /\ \A k \in 1..Len(bp.processed) :
          LET p == bp.processed[k]
          IN /\ p.i % bp.batch_size = 0
             /\ p.i < Len(bp.items)
             /\ Len(p.batch) \in 1..bp.batch_size
             /\ p.batch = [j \in 1..Len(p.batch) |-> bp.items[p.i + j]]
             /\ p.i + Len(p.batch) = Min2(p.i + bp.batch_size, Len(bp.items))
             /\ k > 1 => bp.processed[k - 1].i \in {p.i, p.i - bp.batch_size}
             /\ k = 1 => p.i = 0
    /\ bp.pc = "returned" =>
          BatchStarts = {i \in 0..(Len(bp.items) - 1) : i % bp.batch_size = 0}

\* a batch is attempted at most max_retries + 1 times, the attempts are
\* numbered in order, and no attempt follows a success
BoundedAttempts ==
    \A i \in BatchStarts :
        LET a == AttemptsOn(i)
        IN /\ Len(a) <= bp.max_retries + 1
           /\ \A k \in 1..Len(a) : a[k].attempt = k - 1
           /\ \A k \in 1..(Len(a) - 1) : ~a[k].ok

\* the wait after the k-th failed attempt on a batch, if another attempt is to
\* follow, is retry_delay * k; there is no other wait
LinearBackoff ==
    /\ \A k \in 1..Len(bp.sleeps) : bp.sleeps[k].delay = retry_delay * (bp.sleeps[k].attempt + 1)
    /\ \A k \in 1..Len(bp.processed) :
          LET p == bp.processed[k]
          IN p.attempt >= 1 =>
                Cardinality({j \in 1..Len(bp.sleeps) :
                                /\ bp.sleeps[j].i = p.i
                                /\ bp.sleeps[j].attempt = p.attempt - 1}) = 1
    /\ Len(bp.sleeps) = Cardinality({k \in 1..Len(bp.processed) :
                                        /\ ~bp.processed[k].ok
                                        /\ bp.processed[k].attempt < bp.max_retries})

RECURSIVE BatchResults(_)
\* the concatenation of what the successful calls returned, in batch order
BatchResults(processed) ==
    IF processed = <<>> THEN <<>>
    ELSE (IF Head(processed).ok THEN Head(processed).value ELSE <<>>)
         \o BatchResults(Tail(processed))

Concatenation ==
    bp.pc = "returned" =>
        /\ \A i \in BatchStarts : \E k \in 1..Len(AttemptsOn(i)) : AttemptsOn(i)[k].ok
        /\ bp.value = BatchResults(bp.processed)

C32_ExhaustedBatchRaises ==
    /\ (\E i \in BatchStarts :
           /\ Len(AttemptsOn(i)) = bp.max_retries + 1
           /\ \A k \in 1..Len(AttemptsOn(i)) : ~AttemptsOn(i)[k].ok)
       => /\ bp.pc = "raised"
          /\ ~Last(bp.processed).ok
          /\ bp.value = <<>>
    /\ bp.pc = "raised" => ~ENABLED NextBatches

\* the second of three batches failed three times, after the first returned
\* its results
C32_Witness ==
    /\ bp.pc = "raised"
    /\ bp.results # <<>>
    /\ Len(bp.items) > Last(bp.processed).i + bp.batch_size
    /\ bp.max_retries = 2

----------------------------------------------------------------------------
(* Properties of the reconciliation of categorize_all and draft_replies *)

\* the categories of the output of categorize_all
OutputCategories ==
    [i \in 1..Len(context.categorized_threads) |->
        context.categorized_threads[i].categorization.category]

\* the categories the output has to hold for the calls cs: for an answered
\* call the label of each entry if it is one of the three, Summary Only if it
\* is not; for a failed call the Summary Only of the placeholder
RECURSIVE NormalizedCategories(_)
NormalizedCategories(cs) ==
    IF cs = <<>> THEN <<>>
    ELSE LET c == cs[Len(cs)]
             norm(l) == IF l \in EmailCategory THEN l ELSE SUMMARY_ONLY
         IN  NormalizedCategories(SubSeq(cs, 1, Len(cs) - 1))
             \o (IF c.ok THEN [j \in 1..Len(c.labels) |-> norm(c.labels[j])]
                 ELSE [j \in 1..Len(c.ids) |-> SUMMARY_ONLY])

\* the conversations the output has to hold for the calls cs
RECURSIVE ClassifiedIds(_)
ClassifiedIds(cs) ==
    IF cs = <<>> THEN <<>>
    ELSE LET c == cs[Len(cs)]
         IN  ClassifiedIds(SubSeq(cs, 1, Len(cs) - 1))
             \o (IF c.ok THEN c.answered ELSE c.ids)

\* C33: an entry of the response that names a conversation of the batch and
\* carries a label that is none of the three categories gives that
\* conversation a classification of category Summary Only; every other
\* answered conversation of the batch keeps the category of its own entry.
C33_InvalidLabelIsSummaryOnly ==
    /\ \A i \in 1..Len(loc.all_results) :
          loc.all_results[i].categorization.category \in EmailCategory
    /\ CategorizeReturned =>
          /\ OutputCategories = NormalizedCategories(CategorizeCalls)
          /\ [i \in 1..Len(context.categorized_threads) |->
                 context.categorized_threads[i].thread.thread_id]
               = ClassifiedIds(CategorizeCalls)

\* categorize_all has returned after one answer gave one conversation a label
\* that is no category and another conversation Action Immediately
C33_Witness ==
    /\ CategorizeReturned
    /\ \E k \in 1..Len(CategorizeCalls) :
          /\ CategorizeCalls[k].ok
          /\ \E l \in Range(CategorizeCalls[k].labels) : l \notin EmailCategory
          /\ ACTION_IMMEDIATELY \in Range(CategorizeCalls[k].labels)
    /\ ACTION_IMMEDIATELY \in Range(OutputCategories)
    /\ SUMMARY_ONLY \in Range(OutputCategories)

\* C34: no conversation is in the output of categorize_all more than once,
\* also when the answer has several entries for one conversation. Fails: every
\* entry for a conversation of the batch adds an element to the output.
C34_OutputIdsUnique ==
    CategorizeReturned =>
        \A id \in ThreadIds : Len(EntriesFor(id)) <= 1

RECURSIVE FirstEntries(_, _)
\* the entries of items that name a conversation of ids no earlier entry named
FirstEntries(items, ids) ==
    IF items = <<>> THEN <<>>
    ELSE LET init == FirstEntries(SubSeq(items, 1, Len(items) - 1), ids)
             x == items[Len(items)]
             id == Get(x, "thread_id", UnknownId)
         IN  IF /\ id \in ids
                /\ \A k \in 1..Len(init) : init[k].thread_id # id
             THEN Append(init, x) ELSE init

\* what the reconciliation has to give: for each first entry of a conversation
\* of the batch, in the order of the answer, the conversation with the
\* awaiting_reply of the entry and, if that is set, its reply text; then the
\* conversations the answer names nowhere, as they were
Reconciled(items, threads) ==
    LET first == FirstEntries(items, Range(CtIds(threads)))
        named == {first[k].thread_id : k \in 1..Len(first)}
        ctOf(id) == CHOOSE ct \in Range(threads) : ct.thread.thread_id = id
        updated(item) ==
            LET ct == ctOf(item.thread_id)
            IN  CategorizedThread(ct.thread,
                    [ct.categorization EXCEPT
                        !.awaiting_reply = item.awaiting_reply,
                        !.suggested_reply =
                            IF item.awaiting_reply THEN item.suggested_reply ELSE None])
    IN  [k \in 1..Len(first) |-> updated(first[k])]
        \o SelectSeq(threads, LAMBDA ct : ct.thread.thread_id \notin named)

\* the ids the entries of the answer carry
NamedIds(items) == {Get(items[k], "thread_id", UnknownId) : k \in 1..Len(items)}

\* C35: the result of the draft reconciliation is what the first entry of each
\* conversation of the batch alone gives: an entry whose id is no id of the
\* batch, or the id of an earlier entry, changes nothing; and every
\* conversation of the batch the answer does not name is in the result once,
\* classification unchanged.
C35_StrayEntriesChangeNothing ==
    reconcile.called =>
        /\ reconcile.value = Reconciled(reconcile.items, reconcile.threads)
        /\ reconcile.value
             = _parse_draft_response(
                   FirstEntries(reconcile.items, Range(CtIds(reconcile.threads))),
                   reconcile.threads)
        /\ \A ct \in Range(reconcile.threads) :
              ct.thread.thread_id \notin NamedIds(reconcile.items) =>
                  Occurrences(reconcile.value, ct) = 1

\* a batch of two conversations reconciled with an answer that names one of
\* them twice, with different awaiting_reply, and the other not at all
C35_Witness ==
    /\ reconcile.called
    /\ Len(reconcile.threads) = 2
    /\ Len(reconcile.items) = 2
    /\ reconcile.items[1].thread_id = reconcile.items[2].thread_id
    /\ reconcile.items[1].thread_id \in Range(CtIds(reconcile.threads))
    /\ reconcile.items[1].awaiting_reply /\ ~reconcile.items[2].awaiting_reply
    /\ Len(reconcile.value) = 2
    /\ reconcile.value[1].categorization.suggested_reply = "reply"

\* a step of the loop of draft_replies in which the call for the batch fails
DraftCallFails ==
    /\ pc = "draft_replies"
    /\ Len(DraftCalls') = Len(DraftCalls) + 1
    /\ ~Last(DraftCalls').ok

\* the draft calls that failed
FailedDraftCalls == SelectSeq(DraftCalls, LAMBDA c : ~c.ok)

\* C36: when the call for a draft batch fails, draft_replies goes on: the
\* conversations of the batch are appended to its result as they are, the stage
\* raises nothing and records no failure, the loop makes the calls for the
\* batches that remain, and the stage returns every conversation of the failed
\* batch once, without reply data.
C36_DraftBatchFailureIsolated ==
    /\ [][DraftCallFails =>
             /\ loc'.drafted
                  = loc.drafted
                    \o Slice(loc.actionable, loc.i, loc.i + config.batch_size)
             /\ pc' = "draft_replies"
             /\ loc'.i = loc.i + config.batch_size
             /\ raised' = raised
             /\ context' = context]_vars
    /\ [](FailedDraftCalls # <<>> =>
             /\ DRAFT_REPLIES \notin Range(raised)
             /\ context.success
             /\ context.failed_state = None
             /\ pc = "draft_replies" /\ loc.i < Len(loc.actionable)
                   => ENABLED DraftBatch("any")
             /\ DraftReturned =>
                   /\ Len(DraftCalls)
                        = Batches(Len(SelectSeq(context.categorized_threads,
                                                IsActionable)),
                                  config.batch_size)
                   /\ \A k \in 1..Len(FailedDraftCalls) :
                         \A id \in Range(FailedDraftCalls[k].ids) :
                             /\ Len(EntriesFor(id)) = 1
                             /\ IsActionable(EntriesFor(id)[1])
                             /\ ~EntriesFor(id)[1].categorization.awaiting_reply
                             /\ EntriesFor(id)[1].categorization.suggested_reply = None)

\* draft_replies has returned two conversations after the call for the first
\* batch failed and the call for the second set awaiting_reply
C36_Witness ==
    /\ DraftReturned
    /\ Len(DraftCalls) = 2
    /\ ~DraftCalls[1].ok
    /\ DraftCalls[2].ok
    /\ Len(context.categorized_threads) = 2
    /\ ~context.categorized_threads[1].categorization.awaiting_reply
    /\ context.categorized_threads[2].categorization.awaiting_reply
    /\ raised = <<>>

\* the conversation without its reply data
WithoutReply(ct) ==
    CategorizedThread(ct.thread,
        [ct.categorization EXCEPT !.awaiting_reply = FALSE, !.suggested_reply = None])

WithoutReplies(cts) == [i \in 1..Len(cts) |-> WithoutReply(cts[i])]

\* DRAFT_REPLIES leaves messages, category, priority, summary and reasoning of
\* every conversation as they were, and with them the per-category counts
OnlyReplyFieldsChange ==
    DraftRepliesReturns =>
        /\ \A ct \in Range(WithoutReplies(context.categorized_threads))
                     \cup Range(WithoutReplies(context'.categorized_threads)) :
              Occurrences(WithoutReplies(context'.categorized_threads), ct)
                = Occurrences(WithoutReplies(context.categorized_threads), ct)
        /\ CategoryCounts(context'.categorized_threads)
             = CategoryCounts(context.categorized_threads)

\* C37: the output of draft_replies holds the conversations of its input with
\* messages, category, priority, summary and reasoning as they were, so the
\* per-category counts before and after DRAFT_REPLIES are equal. Fails: when
\* categorize_all returned a conversation twice, draft_replies keeps one entry
\* of the two and the counts change.
C37_OnlyReplyFieldsChange == [][OnlyReplyFieldsChange]_vars

----------------------------------------------------------------------------
(* Properties of the failure record and of the delivery of a run *)

\* the entries of the error list the except clause of run() wrote
StageErrors == SelectSeq(context.errors, LAMBDA e : e[1] \in PipelineState)

\* C38: at every point of a run, success is false exactly when failed_state is
\* set, exactly when the captured exception is set and exactly when a handler
\* has raised; at most one stage failure is recorded, for a handler that is
\* not the REPORT handler; and the status of the result is "error" exactly
\* when a handler raised.
C38_FailureRecordedOnce ==
    /\ ~context.success <=> context.failed_state # None
    /\ ~context.success <=> context.error # NoError
    /\ ~context.success <=> raised # <<>>
    /\ Len(raised) <= 1
    /\ Len(StageErrors) = Len(raised)
    /\ REPORT \notin Range(raised)
    /\ raised # <<>> =>
          /\ context.failed_state = raised[1]
          /\ StageErrors[1][1] = raised[1]
    /\ pc = "done" =>
          /\ response.status \in {"success", "error"}
          /\ response.status = "error" <=> raised # <<>>

\* a run in which GROUP_EMAILS raised after the stages before it returned has
\* returned "error" with one error on its list
C38_Witness ==
    /\ pc = "done"
    /\ raised = <<GROUP_EMAILS>>
    /\ response.status = "error"
    /\ Len(response.errors) = 1
    /\ Occurrences(invoked, REPORT) = 1

\* C39: a run makes at most one delivery, so never a digest and an alert; a
\* digest is only sent when no handler raised and the digest holds a
\* conversation, an alert only when a handler raised, and it names that
\* handler's state; slack_sent, in the context and in the result, is only true
\* when delivery is enabled and the one delivery went through.
C39_OneDeliveryOfTheRightKind ==
    /\ Len(Sends) <= 1
    /\ \A k \in 1..Len(Sends) :
          /\ config.slack_enabled
          /\ Sends[k].payload = "digest" =>
                /\ raised = <<>>
                /\ context.success
                /\ context.digest.present
                /\ context.digest.total_threads > 0
          /\ Sends[k].payload # "digest" =>
                /\ raised # <<>>
                /\ Sends[k].payload = raised[1]
    /\ context.slack_sent =>
          /\ config.slack_enabled
          /\ Len(Sends) = 1
          /\ Sends[1].ok
    /\ pc = "done" => response.slack_sent = context.slack_sent

\* a run in which a handler raised has delivered the alert and returned a
\* result whose slack_sent is true
C39_Witness ==
    /\ pc = "done"
    /\ raised # <<>>
    /\ Len(Sends) = 1
    /\ Sends[1].ok
    /\ Sends[1].payload = raised[1]
    /\ response.slack_sent
    /\ response.status = "error"

====
